---------------------------- MODULE Spec2Model ----------------------------
(* Minesweeper (adlbrtbsr/Minesweeper): the board logic of                 *)
(* src/minesweeper/logic.py, the event loop of src/main.py and the menu of  *)
(* src/minesweeper/menu.py.                                                *)
(*                                                                         *)
(* A grid is a function from its cells <<r, c>> (0-based) to a value; the  *)
(* Python list-of-lists grid[r][c] is grid[<<r, c>>] here.                 *)
(*                                                                         *)
(* Specifications:                                                         *)
(*   Spec       the game of src/main.py: main()'s event loop with reset(), *)
(*              the R and M keys and the three mouse buttons;              *)
(*   SpecLogic  the functions of src/minesweeper/logic.py called directly  *)
(*              on boards built by create_mine_grid and calc_adjacency;    *)
(*   SpecRaw    reveal_cell and chord_reveal called with coordinates on    *)
(*              and around the grid;                                       *)
(*   SpecGrid   create_mine_grid and calc_adjacency called directly;       *)
(*   SpecCfg    reveal_cell and chord_reveal on grids of a size other than *)
(*              cfg.ROWS x cfg.COLUMNS;                                    *)
(*   SpecSteps  reveal_cell and chord_reveal one loop iteration at a time, *)
(*              SpecStepsFair with the call in progress running on;        *)
(*   SpecMenu   run_menu of src/minesweeper/menu.py.                       *)
EXTENDS Integers, Sequences, FiniteSets, TLC

VARIABLES
    ROWS,            \* global ROWS (main.py) / cfg.ROWS (logic.py)
    COLUMNS,         \* global COLUMNS / cfg.COLUMNS
    NUM_MINES,       \* global NUM_MINES
    mine_grid,       \* MineGrid
    adjacency_grid,  \* AdjacencyGrid
    revealed,        \* RevealedGrid
    flagged,         \* FlagGrid
    game_state,      \* "running" | "won" | "lost"
    remaining_safe,  \* int
    is_first_click,  \* bool
    start_ticks,     \* None or a tick stamp
    end_ticks,       \* None or a tick stamp
    event,           \* the event the loop handled last
    hit_mine,        \* hit_mine the last handled event got from reveal_cell or
                     \* chord_reveal (FALSE when it called neither)
    opened,          \* opened of the same call (0 when the event called neither)
    crashed,         \* an exception left main() (ValueError of create_mine_grid)
    exclude_arg,     \* exclude of a create_mine_grid call made directly
                     \* (SpecGrid); the game passes it on and keeps no copy
    menu,            \* the locals of run_menu of minesweeper/menu.py while it
                     \* runs (SpecMenu)
    call             \* the locals of the reveal_cell or chord_reveal call in
                     \* progress and the loop it is in (SpecSteps)

vars == <<ROWS, COLUMNS, NUM_MINES, mine_grid, adjacency_grid, revealed, flagged,
          game_state, remaining_safe, is_first_click, start_ticks, end_ticks,
          event, hit_mine, opened, crashed, exclude_arg, menu,
                  call>>

-----------------------------------------------------------------------------
(* Bounds of the model *)

\* a board has at most MaxRows rows
MaxRows == 2

\* a board of the game has at most MaxColumns columns and MaxCells cells
MaxColumns == 3

MaxCells == 4

\* a board handed to the functions of logic.py directly (SpecLogic) has at most
\* MaxLogicColumns columns and MaxLogicCells cells
MaxLogicColumns == 4

MaxLogicCells == 6

\* at most MaxMines mines are asked for
MaxMines == 2

\* at most MaxFlags flags stand on the board at a time
MaxFlags == 2

\* a grid asked of create_mine_grid directly (SpecGrid) has at most MaxGridRows
\* rows, MaxGridColumns columns and MaxGridCells cells
MaxGridRows == 3

MaxGridColumns == 3

MaxGridCells == 9

\* exclude holds at most MaxExclude coordinates there
MaxExclude == 2

\* a run of run_menu of minesweeper/menu.py (SpecMenu) handles at most
\* MaxMenuClicks clicks
MaxMenuClicks == 3

-----------------------------------------------------------------------------
(* Helpers *)

Max(a, b) == IF a >= b THEN a ELSE b

Min(a, b) == IF a <= b THEN a ELSE b

\* None of Python
None == "None"

\* a value of pygame.time.get_ticks()
Ticks == "ticks"

\* run_menu of minesweeper/menu.py is not running
NoMenu == [state |-> "none"]

\* no reveal_cell or chord_reveal call is in progress
Idle ==
    [pc |-> "idle", in_chord |-> FALSE, stack |-> <<>>, newly_revealed |-> 0,
     neighbors_coords |-> <<>>, i |-> 0, total_opened |-> 0]

\* [(r, c) for r in range(rows) for c in range(columns)]
Cells(rows, columns) == (0 .. rows - 1) \X (0 .. columns - 1)

\* [[value for _ in range(columns)] for _ in range(rows)]
NewGrid(rows, columns, value) == [p \in Cells(rows, columns) |-> value]

\* len(grid)
GridRows(grid) == Cardinality({p[1] : p \in DOMAIN grid})

\* len(grid[0])
GridColumns(grid) == Cardinality({p[2] : p \in DOMAIN grid})

\* the number of True cells of a boolean grid
CountTrue(grid) == Cardinality({p \in DOMAIN grid : grid[p]})

\* for dr in (-1, 0, 1): for dc in (-1, 0, 1): if dr == 0 and dc == 0: continue
Deltas ==
    << <<-1, -1>>, <<-1, 0>>, <<-1, 1>>,
       <<0, -1>>,             <<0, 1>>,
       <<1, -1>>,  <<1, 0>>,  <<1, 1>> >>

\* 0 <= nr < rows and 0 <= nc < columns
InBounds(p, rows, columns) ==
    /\ 0 <= p[1] /\ p[1] < rows
    /\ 0 <= p[2] /\ p[2] < columns

\* the in-bounds neighbours of a cell, in the order the double loop visits them
NeighborSeq(cell, rows, columns) ==
    LET all == [i \in 1 .. 8 |-> <<cell[1] + Deltas[i][1], cell[2] + Deltas[i][2]>>]
    IN  SelectSeq(all, LAMBDA p : InBounds(p, rows, columns))

-----------------------------------------------------------------------------
(* create_mine_grid *)

\* CreateMineGridRaises with ">=" for ">"
CreateMineGridRaisesAtEqual(rows, columns, num_mines, exclude) ==
    num_mines >= Cardinality({p \in (0 .. rows - 1) \X (0 .. columns - 1) :
                                 p \notin exclude})

\* CreateMineGrid sampling all_positions where it should sample available
CreateMineGridFromAll(rows, columns, num_mines, exclude) ==
    IF num_mines > Cardinality({p \in (0 .. rows - 1) \X (0 .. columns - 1) :
                                   p \notin exclude})
    THEN {}
    ELSE {[p \in (0 .. rows - 1) \X (0 .. columns - 1) |-> p \in mine_positions] :
             mine_positions \in
                 {S \in SUBSET ((0 .. rows - 1) \X (0 .. columns - 1)) :
                     Cardinality(S) = num_mines}}

\* available: all positions not in exclude
Available(rows, columns, exclude) ==
    {p \in Cells(rows, columns) : p \notin exclude}

\* create_mine_grid raises ValueError
CreateMineGridRaises(rows, columns, num_mines, exclude) ==
    num_mines > Cardinality(Available(rows, columns, exclude))

\* the grids create_mine_grid can return: one for every sample of num_mines
\* available positions
CreateMineGrid(rows, columns, num_mines, exclude) ==
    IF CreateMineGridRaises(rows, columns, num_mines, exclude) THEN {}
    ELSE {[p \in Cells(rows, columns) |-> p \in mine_positions] :
             mine_positions \in
                 {S \in SUBSET Available(rows, columns, exclude) :
                     Cardinality(S) = num_mines}}

-----------------------------------------------------------------------------
(* calc_adjacency *)

\* CalcAdjacency with "nr < rows and nc < columns" for the bounds test of
\* neighbors: an index of -1 then reads the last row or column
CalcAdjacencyNoLowerBound(grid) ==
    LET rows == GridRows(grid)
        columns == GridColumns(grid)
        neighbors(p) ==
            SelectSeq([i \in 1 .. 8 |-> <<p[1] + Deltas[i][1], p[2] + Deltas[i][2]>>],
                      LAMBDA q : q[1] < rows /\ q[2] < columns)
        at(q) == <<IF q[1] < 0 THEN q[1] + rows ELSE q[1],
                   IF q[2] < 0 THEN q[2] + columns ELSE q[2]>>
    IN  [p \in DOMAIN grid |->
            IF grid[p] THEN -1
            ELSE Len(SelectSeq(neighbors(p), LAMBDA q : grid[at(q)]))]

\* calc_adjacency(mine_grid)
CalcAdjacency(grid) ==
    LET rows == GridRows(grid)
        columns == GridColumns(grid)
        neighbors(p) == NeighborSeq(p, rows, columns)
    IN  [p \in DOMAIN grid |->
            IF grid[p] THEN -1
            ELSE Len(SelectSeq(neighbors(p), LAMBDA q : grid[q]))]

-----------------------------------------------------------------------------
(* reveal_cell *)

\* RevealLoop as a naive flood fill: it expands from every cell without a mine,
\* whatever its number, to every unrevealed neighbour
RECURSIVE RevealLoopNaive(_, _, _, _, _, _, _, _)
RevealLoopNaive(stack, rev, n, mines, adjacency, flags, rows, columns) ==
    IF stack = <<>> THEN [hit_mine |-> FALSE, n |-> n, revealed |-> rev]
    ELSE
        LET cur == stack[Len(stack)]
            rest == SubSeq(stack, 1, Len(stack) - 1)
        IN  IF rev[cur] \/ flags[cur]
            THEN RevealLoopNaive(rest, rev, n, mines, adjacency, flags, rows, columns)
            ELSE
                LET rev2 == [rev EXCEPT ![cur] = TRUE]
                IN  IF mines[cur]
                    THEN [hit_mine |-> TRUE, n |-> n + 1, revealed |-> rev2]
                    ELSE RevealLoopNaive(
                             rest \o SelectSeq(NeighborSeq(cur, rows, columns),
                                               LAMBDA q : ~rev2[q]),
                             rev2, n + 1, mines, adjacency, flags, rows, columns)

\* RevealLoop that expands from the seed only (the first cell it opens), not
\* from the cells with the number 0 it reaches
RECURSIVE RevealLoopOneLevel(_, _, _, _, _, _, _, _)
RevealLoopOneLevel(stack, rev, n, mines, adjacency, flags, rows, columns) ==
    IF stack = <<>> THEN [hit_mine |-> FALSE, n |-> n, revealed |-> rev]
    ELSE
        LET cur == stack[Len(stack)]
            rest == SubSeq(stack, 1, Len(stack) - 1)
        IN  IF rev[cur] \/ flags[cur]
            THEN RevealLoopOneLevel(rest, rev, n, mines, adjacency, flags, rows,
                                    columns)
            ELSE
                LET rev2 == [rev EXCEPT ![cur] = TRUE]
                IN  IF mines[cur]
                    THEN [hit_mine |-> TRUE, n |-> n + 1, revealed |-> rev2]
                    ELSE IF adjacency[cur] = 0 /\ n = 0
                    THEN RevealLoopOneLevel(
                             rest \o SelectSeq(NeighborSeq(cur, rows, columns),
                                               LAMBDA q : ~rev2[q] /\ ~mines[q]),
                             rev2, n + 1, mines, adjacency, flags, rows, columns)
                    ELSE RevealLoopOneLevel(rest, rev2, n + 1, mines, adjacency,
                                            flags, rows, columns)

\* RevealLoop without "if mine_grid[cr][cc]: return True, newly_revealed"
RECURSIVE RevealLoopNoHit(_, _, _, _, _, _, _, _)
RevealLoopNoHit(stack, rev, n, mines, adjacency, flags, rows, columns) ==
    IF stack = <<>> THEN [hit_mine |-> FALSE, n |-> n, revealed |-> rev]
    ELSE
        LET cur == stack[Len(stack)]
            rest == SubSeq(stack, 1, Len(stack) - 1)
        IN  IF rev[cur] \/ flags[cur]
            THEN RevealLoopNoHit(rest, rev, n, mines, adjacency, flags, rows, columns)
            ELSE
                LET rev2 == [rev EXCEPT ![cur] = TRUE]
                IN  IF adjacency[cur] = 0
                    THEN RevealLoopNoHit(
                             rest \o SelectSeq(NeighborSeq(cur, rows, columns),
                                               LAMBDA q : ~rev2[q] /\ ~mines[q]),
                             rev2, n + 1, mines, adjacency, flags, rows, columns)
                    ELSE RevealLoopNoHit(rest, rev2, n + 1, mines, adjacency, flags,
                                         rows, columns)

\* RevealLoop with "if revealed[cr][cc]: continue" for
\* "if revealed[cr][cc] or flagged[cr][cc]: continue"
RECURSIVE RevealLoopOverFlags(_, _, _, _, _, _, _, _)
RevealLoopOverFlags(stack, rev, n, mines, adjacency, flags, rows, columns) ==
    IF stack = <<>> THEN [hit_mine |-> FALSE, n |-> n, revealed |-> rev]
    ELSE
        LET cur == stack[Len(stack)]
            rest == SubSeq(stack, 1, Len(stack) - 1)
        IN  IF rev[cur]
            THEN RevealLoopOverFlags(rest, rev, n, mines, adjacency, flags, rows,
                                     columns)
            ELSE
                LET rev2 == [rev EXCEPT ![cur] = TRUE]
                IN  IF mines[cur]
                    THEN [hit_mine |-> TRUE, n |-> n + 1, revealed |-> rev2]
                    ELSE IF adjacency[cur] = 0
                    THEN RevealLoopOverFlags(
                             rest \o SelectSeq(NeighborSeq(cur, rows, columns),
                                               LAMBDA q : ~rev2[q] /\ ~mines[q]),
                             rev2, n + 1, mines, adjacency, flags, rows, columns)
                    ELSE RevealLoopOverFlags(rest, rev2, n + 1, mines, adjacency,
                                             flags, rows, columns)

\* the while loop of reveal_cell: stack is the work list (its last element is
\* popped), rev the revealed grid as mutated so far, n is newly_revealed
RECURSIVE RevealLoop(_, _, _, _, _, _, _, _)
RevealLoop(stack, rev, n, mines, adjacency, flags, rows, columns) ==
    IF stack = <<>> THEN [hit_mine |-> FALSE, n |-> n, revealed |-> rev]
    ELSE
        LET cur == stack[Len(stack)]
            rest == SubSeq(stack, 1, Len(stack) - 1)
        IN  IF rev[cur] \/ flags[cur]
            THEN RevealLoop(rest, rev, n, mines, adjacency, flags, rows, columns)
            ELSE
                LET rev2 == [rev EXCEPT ![cur] = TRUE]
                IN  IF mines[cur]
                    THEN [hit_mine |-> TRUE, n |-> n + 1, revealed |-> rev2]
                    ELSE IF adjacency[cur] = 0
                    THEN RevealLoop(
                             rest \o SelectSeq(NeighborSeq(cur, rows, columns),
                                               LAMBDA q : ~rev2[q] /\ ~mines[q]),
                             rev2, n + 1, mines, adjacency, flags, rows, columns)
                    ELSE RevealLoop(rest, rev2, n + 1, mines, adjacency, flags,
                                    rows, columns)

\* RevealCell without the flood fill: it opens the seed and stops
RevealCellSeedOnly(cell, mines, adjacency, rev, flags, rows, columns) ==
    IF rev[cell] \/ flags[cell]
    THEN [hit_mine |-> FALSE, n |-> 0, revealed |-> rev]
    ELSE [hit_mine |-> mines[cell], n |-> 1,
          revealed |-> [rev EXCEPT ![cell] = TRUE]]

\* RevealCell that takes no notice of the flags
RevealCellIgnoreFlags(cell, mines, adjacency, rev, flags, rows, columns) ==
    IF rev[cell]
    THEN [hit_mine |-> FALSE, n |-> 0, revealed |-> rev]
    ELSE RevealLoop(<<cell>>, rev, 0, mines, adjacency,
                    [p \in DOMAIN flags |-> FALSE], rows, columns)

\* reveal_cell(r, c, mine_grid, adjacency_grid, revealed, flagged) with the
\* configured ROWS x COLUMNS: the returned (hit_mine, n) and the revealed grid
\* it leaves
RevealCell(cell, mines, adjacency, rev, flags, rows, columns) ==
    IF rev[cell] \/ flags[cell]
    THEN [hit_mine |-> FALSE, n |-> 0, revealed |-> rev]
    ELSE RevealLoop(<<cell>>, rev, 0, mines, adjacency, flags, rows, columns)

-----------------------------------------------------------------------------
(* chord_reveal *)

\* ChordLoop with "total_opened = opened" for "total_opened += opened"
RECURSIVE ChordLoopLastCount(_, _, _, _, _, _, _, _, _)
ChordLoopLastCount(neighbors_coords, i, rev, total_opened, mines, adjacency, flags, rows, columns) ==
    IF i > Len(neighbors_coords)
    THEN [hit_mine |-> FALSE, n |-> total_opened, revealed |-> rev]
    ELSE
        LET q == neighbors_coords[i]
        IN  IF ~flags[q] /\ ~rev[q]
            THEN
                LET res == RevealCell(q, mines, adjacency, rev, flags, rows, columns)
                IN  IF res.hit_mine
                    THEN [hit_mine |-> TRUE, n |-> res.n, revealed |-> res.revealed]
                    ELSE ChordLoopLastCount(neighbors_coords, i + 1, res.revealed,
                                            res.n, mines, adjacency, flags,
                                            rows, columns)
            ELSE ChordLoopLastCount(neighbors_coords, i + 1, rev, total_opened,
                                    mines, adjacency, flags, rows, columns)

\* ChordLoop without "if hit_mine: return True, total_opened" inside the loop:
\* it goes through all neighbours and reports the hit at the end
RECURSIVE ChordLoopNoStop(_, _, _, _, _, _, _, _, _)
ChordLoopNoStop(neighbors_coords, i, rev, total_opened, mines, adjacency, flags, rows, columns) ==
    IF i > Len(neighbors_coords)
    THEN [hit_mine |-> \E p \in DOMAIN rev : rev[p] /\ mines[p],
          n |-> total_opened, revealed |-> rev]
    ELSE
        LET q == neighbors_coords[i]
        IN  IF ~flags[q] /\ ~rev[q]
            THEN
                LET res == RevealCell(q, mines, adjacency, rev, flags, rows, columns)
                IN  ChordLoopNoStop(neighbors_coords, i + 1, res.revealed,
                                    total_opened + res.n, mines, adjacency, flags,
                                    rows, columns)
            ELSE ChordLoopNoStop(neighbors_coords, i + 1, rev, total_opened, mines,
                                 adjacency, flags, rows, columns)

\* the loop over neighbors_coords, from the i-th neighbour on
RECURSIVE ChordLoop(_, _, _, _, _, _, _, _, _)
ChordLoop(neighbors_coords, i, rev, total_opened, mines, adjacency, flags, rows, columns) ==
    IF i > Len(neighbors_coords)
    THEN [hit_mine |-> FALSE, n |-> total_opened, revealed |-> rev]
    ELSE
        LET q == neighbors_coords[i]
        IN  IF ~flags[q] /\ ~rev[q]
            THEN
                LET res == RevealCell(q, mines, adjacency, rev, flags, rows, columns)
                IN  IF res.hit_mine
                    THEN [hit_mine |-> TRUE, n |-> total_opened + res.n,
                          revealed |-> res.revealed]
                    ELSE ChordLoop(neighbors_coords, i + 1, res.revealed,
                                   total_opened + res.n, mines, adjacency, flags,
                                   rows, columns)
            ELSE ChordLoop(neighbors_coords, i + 1, rev, total_opened, mines,
                           adjacency, flags, rows, columns)

\* ChordReveal without "if flagged_count != number_on_tile: return False, 0"
ChordRevealNoFlagCount(cell, mines, adjacency, rev, flags, rows, columns) ==
    IF ~rev[cell] THEN [hit_mine |-> FALSE, n |-> 0, revealed |-> rev]
    ELSE IF adjacency[cell] <= 0
    THEN [hit_mine |-> FALSE, n |-> 0, revealed |-> rev]
    ELSE ChordLoop(NeighborSeq(cell, rows, columns), 1, rev, 0, mines, adjacency,
                   flags, rows, columns)

\* chord_reveal(r, c, mine_grid, adjacency_grid, revealed, flagged)
ChordReveal(cell, mines, adjacency, rev, flags, rows, columns) ==
    IF ~rev[cell] THEN [hit_mine |-> FALSE, n |-> 0, revealed |-> rev]
    ELSE
        LET number_on_tile == adjacency[cell]
            neighbors_coords == NeighborSeq(cell, rows, columns)
            flagged_count == Len(SelectSeq(neighbors_coords, LAMBDA q : flags[q]))
        IN  IF number_on_tile <= 0
            THEN [hit_mine |-> FALSE, n |-> 0, revealed |-> rev]
            ELSE IF flagged_count # number_on_tile
            THEN [hit_mine |-> FALSE, n |-> 0, revealed |-> rev]
            ELSE ChordLoop(neighbors_coords, 1, rev, 0, mines, adjacency, flags,
                           rows, columns)

-----------------------------------------------------------------------------
(* main(): configuration *)

\* max_mines = ROWS * COLUMNS - 1; NUM_MINES = max(1, min(args.mines, max_mines))
\* (run_menu clamps the same way before it returns)
ClampMines(mines, rows, columns) == Max(1, Min(mines, rows * columns - 1))

\* the board sizes within the bounds of the game
BoardSizes ==
    {d \in (1 .. MaxRows) \X (1 .. MaxColumns) : d[1] * d[2] <= MaxCells}

\* the (ROWS, COLUMNS, NUM_MINES) main() computes from the command line
\* (--rows, --cols, --mines), for the boards within the bounds
CliConfigs ==
    {<<Max(1, args_rows), Max(1, args_cols),
       ClampMines(args_mines, Max(1, args_rows), Max(1, args_cols))>> :
        <<args_rows, args_cols, args_mines>> \in
            {a \in (0 .. MaxRows) \X (0 .. MaxColumns) \X (0 .. MaxMines) :
                <<Max(1, a[1]), Max(1, a[2])>> \in BoardSizes}}

\* the (rows, cols, mines) run_menu returns on Start, for the boards within the
\* bounds: rows and cols are any numbers >= 1 (the - buttons stop at 1), mines
\* is clamped
MenuResults ==
    {<<m[1], m[2], ClampMines(m[3], m[1], m[2])>> :
        m \in {a \in (1 .. MaxRows) \X (1 .. MaxColumns) \X (1 .. MaxMines) :
                  <<a[1], a[2]>> \in BoardSizes}}

-----------------------------------------------------------------------------
(* main(): reset() and the event loop *)

NoCell == <<-1, -1>>

Event(type, cell, pressed_right) ==
    [type |-> type, cell |-> cell, pressed_right |-> pressed_right]

\* Reset that leaves the timer stamps as they are
ResetKeepTimer(rows, columns, num_mines) ==
    /\ ROWS' = rows
    /\ COLUMNS' = columns
    /\ NUM_MINES' = num_mines
    /\ mine_grid' \in CreateMineGrid(rows, columns, num_mines, {})
    /\ adjacency_grid' = CalcAdjacency(mine_grid')
    /\ revealed' = NewGrid(rows, columns, FALSE)
    /\ flagged' = NewGrid(rows, columns, FALSE)
    /\ game_state' = "running"
    /\ remaining_safe' = rows * columns - num_mines
    /\ is_first_click' = TRUE
    /\ UNCHANGED <<start_ticks, end_ticks>>

\* reset(), and the assignment of its result, for a configuration
Reset(rows, columns, num_mines) ==
    /\ ROWS' = rows
    /\ COLUMNS' = columns
    /\ NUM_MINES' = num_mines
    /\ mine_grid' \in CreateMineGrid(rows, columns, num_mines, {})
    /\ adjacency_grid' = CalcAdjacency(mine_grid')
    /\ revealed' = NewGrid(rows, columns, FALSE)
    /\ flagged' = NewGrid(rows, columns, FALSE)
    /\ game_state' = "running"
    /\ remaining_safe' = rows * columns - num_mines
    /\ is_first_click' = TRUE
    /\ start_ticks' = None
    /\ end_ticks' = None

\* main() up to the event loop: the configuration, then reset()
Init ==
    \E config \in CliConfigs \cup MenuResults :
        /\ ROWS = config[1]
        /\ COLUMNS = config[2]
        /\ NUM_MINES = config[3]
        /\ mine_grid \in CreateMineGrid(config[1], config[2], config[3], {})
        /\ adjacency_grid = CalcAdjacency(mine_grid)
        /\ revealed = NewGrid(config[1], config[2], FALSE)
        /\ flagged = NewGrid(config[1], config[2], FALSE)
        /\ game_state = "running"
        /\ remaining_safe = config[1] * config[2] - config[3]
        /\ is_first_click = TRUE
        /\ start_ticks = None
        /\ end_ticks = None
        /\ event = Event("none", NoCell, FALSE)
        /\ hit_mine = FALSE
        /\ opened = 0
        /\ crashed = FALSE
        /\ exclude_arg = {}
        /\ menu = NoMenu
        /\ call = Idle

\* the event loop is running
Alive == ~crashed

\* the event called neither reveal_cell nor chord_reveal
NoCall == hit_mine' = FALSE /\ opened' = 0

\* event.key == pygame.K_r
KeyR ==
    /\ Alive
    /\ event' = Event("key_r", NoCell, FALSE)
    /\ Reset(ROWS, COLUMNS, NUM_MINES)
    /\ NoCall
    /\ UNCHANGED <<crashed, exclude_arg, menu,
                  call>>

\* event.key == pygame.K_m, the menu returning a configuration
KeyM(menu_result) ==
    /\ Alive
    /\ event' = Event("key_m", NoCell, FALSE)
    /\ Reset(menu_result[1], menu_result[2], menu_result[3])
    /\ NoCall
    /\ UNCHANGED <<crashed, exclude_arg, menu,
                  call>>

\* CanClick without the test of game_state
CanClickAlways == TRUE

\* game_state == "running" and event.type == pygame.MOUSEBUTTONDOWN
CanClick == game_state = "running"

\* a mouse event while the game is over: no branch of the loop body runs
Ignored ==
    /\ NoCall
    /\ UNCHANGED <<ROWS, COLUMNS, NUM_MINES, mine_grid, adjacency_grid, revealed,
                   flagged, game_state, remaining_safe, is_first_click,
                   start_ticks, end_ticks, crashed, exclude_arg, menu,
                  call>>

\* RevealAllMines without its loop: the revealed grid stays as the call left it
RevealNothingMore(rev, mines) == rev

\* RevealAllMines with "revealed[rr][cc] = mine_grid[rr][cc]" for every cell
RevealOnlyMines(rev, mines) == [p \in DOMAIN rev |-> mines[p]]

\* for rr .. for cc ..: if mine_grid[rr][cc]: revealed[rr][cc] = True
RevealAllMines(rev, mines) == [p \in DOMAIN rev |-> rev[p] \/ mines[p]]

\* if start_ticks is not None and end_ticks is None: end_ticks = get_ticks()
StopTimer(start) == IF start # None /\ end_ticks = None THEN Ticks ELSE end_ticks

\* if remaining_safe == 0
AllSafeOpened(remaining) == remaining = 0

\* "if hit_mine: ... else: ..." after a reveal_cell or chord_reveal call that
\* returned res on the grid mines, start being start_ticks by then
Outcome(res, mines, start) ==
    /\ hit_mine' = res.hit_mine
    /\ opened' = res.n
    /\ start_ticks' = start
    /\ IF res.hit_mine
       THEN /\ game_state' = "lost"
            /\ end_ticks' = StopTimer(start)
            /\ revealed' = RevealAllMines(res.revealed, mines)
            /\ remaining_safe' = remaining_safe
       ELSE /\ remaining_safe' = remaining_safe - res.n
            /\ revealed' = res.revealed
            /\ IF AllSafeOpened(remaining_safe')
               THEN /\ game_state' = "won"
                    /\ end_ticks' = StopTimer(start)
               ELSE /\ game_state' = game_state
                    /\ end_ticks' = end_ticks

\* chord_reveal in the game: the configured ROWS x COLUMNS
MainChordReveal(cell) ==
    ChordReveal(cell, mine_grid, adjacency_grid, revealed, flagged, ROWS, COLUMNS)

\* the chord branch: chord_reveal, the timer start, the outcome
Chord(cell) ==
    LET res == MainChordReveal(cell)
    IN  /\ Outcome(res, mine_grid,
                   IF res.n > 0 /\ start_ticks = None THEN Ticks ELSE start_ticks)
        /\ UNCHANGED <<ROWS, COLUMNS, NUM_MINES, mine_grid, adjacency_grid, flagged,
                       is_first_click, crashed, exclude_arg, menu,
                  call>>

\* event.button == 2
MiddleClick(cell) ==
    /\ Alive
    /\ cell \in Cells(ROWS, COLUMNS)
    /\ event' = Event("middle", cell, FALSE)
    /\ IF CanClick THEN Chord(cell) ELSE Ignored

\* if pressed[2] and revealed[r][c] and adjacency_grid[r][c] > 0
IsChordClick(cell, pressed_right) ==
    pressed_right /\ revealed[cell] /\ adjacency_grid[cell] > 0

\* IsFirstClick without the test of is_first_click
IsFirstClickAlways(cell) == ~revealed[cell]

\* if is_first_click and not revealed[r][c]
IsFirstClick(cell) == is_first_click /\ ~revealed[cell]

\* MainRevealCell with a reveal_cell that does not report the mine it opens
MainRevealCellNoHit(cell, mines, adjacency) ==
    IF revealed[cell] \/ flagged[cell]
    THEN [hit_mine |-> FALSE, n |-> 0, revealed |-> revealed]
    ELSE RevealLoopNoHit(<<cell>>, revealed, 0, mines, adjacency, flagged,
                         ROWS, COLUMNS)

\* reveal_cell in the game: the configured ROWS x COLUMNS
MainRevealCell(cell, mines, adjacency) ==
    RevealCell(cell, mines, adjacency, revealed, flagged, ROWS, COLUMNS)

\* Reveal without "adjacency_grid = calc_adjacency(mine_grid)" after the
\* regeneration: the numbers of the layout before stay
RevealStaleAdjacency(cell, mines, start) ==
    LET res == MainRevealCell(cell, mines, adjacency_grid)
    IN  /\ mine_grid' = mines
        /\ adjacency_grid' = adjacency_grid
        /\ Outcome(res, mines, start)
        /\ UNCHANGED <<ROWS, COLUMNS, NUM_MINES, flagged, crashed, exclude_arg, menu,
                  call>>

\* reveal_cell on the grid the click left (regenerated or not), and the outcome
Reveal(cell, mines, start) ==
    LET adjacency == CalcAdjacency(mines)
        res == MainRevealCell(cell, mines, adjacency)
    IN  /\ mine_grid' = mines
        /\ adjacency_grid' = adjacency
        /\ Outcome(res, mines, start)
        /\ UNCHANGED <<ROWS, COLUMNS, NUM_MINES, flagged, crashed, exclude_arg, menu,
                  call>>

\* the first-click branch: the layout is generated again without the cell
FirstClick(cell) ==
    /\ is_first_click' = FALSE
    /\ IF CreateMineGridRaises(ROWS, COLUMNS, NUM_MINES, {cell})
       THEN \* ValueError leaves main()
            /\ crashed' = TRUE
            /\ NoCall
            /\ UNCHANGED <<ROWS, COLUMNS, NUM_MINES, mine_grid, adjacency_grid,
                           revealed, flagged, game_state, remaining_safe,
                           start_ticks, end_ticks, exclude_arg, menu,
                  call>>
       ELSE \E mines \in CreateMineGrid(ROWS, COLUMNS, NUM_MINES, {cell}) :
                Reveal(cell, mines, Ticks)

\* event.button == 1
LeftClick(cell, pressed_right) ==
    /\ Alive
    /\ cell \in Cells(ROWS, COLUMNS)
    /\ event' = Event("left", cell, pressed_right)
    /\ IF ~CanClick THEN Ignored
       ELSE IF IsChordClick(cell, pressed_right) THEN Chord(cell)
       ELSE IF IsFirstClick(cell) THEN FirstClick(cell)
       ELSE /\ is_first_click' = is_first_click
            /\ Reveal(cell, mine_grid,
                      IF start_ticks = None /\ ~revealed[cell]
                      THEN Ticks ELSE start_ticks)

\* ToggleFlag without "if not revealed[r][c]"
ToggleFlagAnyCell(cell) == [flagged EXCEPT ![cell] = ~flagged[cell]]

\* if not revealed[r][c]: flagged[r][c] = not flagged[r][c]
ToggleFlag(cell) ==
    IF ~revealed[cell] THEN [flagged EXCEPT ![cell] = ~flagged[cell]] ELSE flagged

\* event.button == 3
RightClick(cell) ==
    /\ Alive
    /\ cell \in Cells(ROWS, COLUMNS)
    /\ event' = Event("right", cell, FALSE)
    /\ IF ~CanClick THEN Ignored
       ELSE /\ flagged' = ToggleFlag(cell)
            /\ CountTrue(flagged') <= MaxFlags
            /\ NoCall
            /\ UNCHANGED <<ROWS, COLUMNS, NUM_MINES, mine_grid, adjacency_grid,
                           revealed, game_state, remaining_safe, is_first_click,
                           start_ticks, end_ticks, crashed, exclude_arg, menu,
                  call>>

Next ==
    \/ KeyR
    \/ \E menu_result \in MenuResults : KeyM(menu_result)
    \/ \E cell \in Cells(ROWS, COLUMNS) : MiddleClick(cell)
    \/ \E cell \in Cells(ROWS, COLUMNS), pressed_right \in BOOLEAN :
           LeftClick(cell, pressed_right)
    \/ \E cell \in Cells(ROWS, COLUMNS) : RightClick(cell)

Spec == Init /\ [][Next]_vars

-----------------------------------------------------------------------------
(* The functions of logic.py called directly *)

\* the board sizes within the bounds of SpecLogic
LogicBoardSizes ==
    {d \in (1 .. MaxRows) \X (1 .. MaxLogicColumns) : d[1] * d[2] <= MaxLogicCells}

\* a board from create_mine_grid and calc_adjacency, nothing revealed or
\* flagged; cfg.ROWS and cfg.COLUMNS are the board's size
InitLogic ==
    \E d \in LogicBoardSizes :
        \E num_mines \in 0 .. Min(MaxMines, d[1] * d[2]) :
            /\ ROWS = d[1]
            /\ COLUMNS = d[2]
            /\ NUM_MINES = num_mines
            /\ mine_grid \in CreateMineGrid(d[1], d[2], num_mines, {})
            /\ adjacency_grid = CalcAdjacency(mine_grid)
            /\ revealed = NewGrid(d[1], d[2], FALSE)
            /\ flagged = NewGrid(d[1], d[2], FALSE)
            /\ game_state = "running"
            /\ remaining_safe = d[1] * d[2] - num_mines
            /\ is_first_click = FALSE
            /\ start_ticks = None
            /\ end_ticks = None
            /\ event = Event("none", NoCell, FALSE)
            /\ hit_mine = FALSE
            /\ opened = 0
            /\ crashed = FALSE
            /\ exclude_arg = {}
            /\ menu = NoMenu
            /\ call = Idle

\* the caller calls while no mine is open: a call that hits a mine is its last
InPlay == \A p \in DOMAIN mine_grid : ~(mine_grid[p] /\ revealed[p])

\* what a call of a function of logic.py leaves alone
LogicFrame ==
    UNCHANGED <<ROWS, COLUMNS, NUM_MINES, mine_grid, adjacency_grid, game_state,
                remaining_safe, is_first_click, start_ticks, end_ticks, crashed,
                exclude_arg, menu,
                  call>>

\* hit_mine, opened = reveal_cell(r, c, mine_grid, adjacency_grid, revealed, flagged)
CallRevealCell(cell) ==
    LET res == RevealCell(cell, mine_grid, adjacency_grid, revealed, flagged,
                          ROWS, COLUMNS)
    IN  /\ InPlay
        /\ event' = Event("reveal_cell", cell, FALSE)
        /\ hit_mine' = res.hit_mine
        /\ opened' = res.n
        /\ revealed' = res.revealed
        /\ UNCHANGED flagged
        /\ LogicFrame

\* hit_mine, opened = chord_reveal(r, c, mine_grid, adjacency_grid, revealed, flagged)
CallChordReveal(cell) ==
    LET res == ChordReveal(cell, mine_grid, adjacency_grid, revealed, flagged,
                           ROWS, COLUMNS)
    IN  /\ InPlay
        /\ event' = Event("chord_reveal", cell, FALSE)
        /\ hit_mine' = res.hit_mine
        /\ opened' = res.n
        /\ revealed' = res.revealed
        /\ UNCHANGED flagged
        /\ LogicFrame

\* the caller's flag toggle between the calls
CallToggleFlag(cell) ==
    /\ InPlay
    /\ event' = Event("toggle_flag", cell, FALSE)
    /\ flagged' = ToggleFlag(cell)
    /\ CountTrue(flagged') <= MaxFlags
    /\ NoCall
    /\ UNCHANGED revealed
    /\ LogicFrame

NextLogic ==
    \/ \E cell \in Cells(ROWS, COLUMNS) : CallRevealCell(cell)
    \/ \E cell \in Cells(ROWS, COLUMNS) : CallChordReveal(cell)
    \/ \E cell \in Cells(ROWS, COLUMNS) : CallToggleFlag(cell)

SpecLogic == InitLogic /\ [][NextLogic]_vars

-----------------------------------------------------------------------------
(* reveal_cell and chord_reveal called with any coordinates *)

\* the index i as a Python list of length len resolves it: -1 is the last item
PyIndex(i, len) == IF i < 0 THEN i + len ELSE i

\* grid[r][c] raises IndexError
IndexError(cell, grid) ==
    \/ cell[1] < -GridRows(grid) \/ cell[1] >= GridRows(grid)
    \/ cell[2] < -GridColumns(grid) \/ cell[2] >= GridColumns(grid)

\* the cell grid[r][c] is, when it raises no IndexError
At(cell, grid) ==
    <<PyIndex(cell[1], GridRows(grid)), PyIndex(cell[2], GridColumns(grid))>>

\* reveal_cell(r, c, ...) for any integers r, c: the subscripts grid[r][c]
\* resolve r and c as Python does, the neighbours are r + dr, c + dc tested
\* against cfg.ROWS and cfg.COLUMNS; raised tells an IndexError
RevealCellAt(cell, mines, adjacency, rev, flags, rows, columns) ==
    IF IndexError(cell, rev)
    THEN [raised |-> TRUE, hit_mine |-> FALSE, n |-> 0, revealed |-> rev]
    ELSE
        LET w == At(cell, rev)
            rev2 == [rev EXCEPT ![w] = TRUE]
            res ==
                IF rev[w] \/ flags[w]
                THEN [hit_mine |-> FALSE, n |-> 0, revealed |-> rev]
                ELSE IF mines[w]
                THEN [hit_mine |-> TRUE, n |-> 1, revealed |-> rev2]
                ELSE IF adjacency[w] = 0
                THEN RevealLoop(SelectSeq(NeighborSeq(cell, rows, columns),
                                          LAMBDA q : ~rev2[q] /\ ~mines[q]),
                                rev2, 1, mines, adjacency, flags, rows, columns)
                ELSE [hit_mine |-> FALSE, n |-> 1, revealed |-> rev2]
        IN  [raised |-> FALSE, hit_mine |-> res.hit_mine, n |-> res.n,
             revealed |-> res.revealed]

\* chord_reveal(r, c, ...) for any integers r, c
ChordRevealAt(cell, mines, adjacency, rev, flags, rows, columns) ==
    IF IndexError(cell, rev)
    THEN [raised |-> TRUE, hit_mine |-> FALSE, n |-> 0, revealed |-> rev]
    ELSE
        LET w == At(cell, rev)
            number_on_tile == adjacency[w]
            neighbors_coords == NeighborSeq(cell, rows, columns)
            flagged_count == Len(SelectSeq(neighbors_coords, LAMBDA q : flags[q]))
            res ==
                IF ~rev[w] \/ number_on_tile <= 0 \/ flagged_count # number_on_tile
                THEN [hit_mine |-> FALSE, n |-> 0, revealed |-> rev]
                ELSE ChordLoop(neighbors_coords, 1, rev, 0, mines, adjacency,
                               flags, rows, columns)
        IN  [raised |-> FALSE, hit_mine |-> res.hit_mine, n |-> res.n,
             revealed |-> res.revealed]

\* the coordinates the functions are called with: the grid and the ring of
\* coordinates around it
RawCoords == (-1 .. ROWS) \X (-1 .. COLUMNS)

\* a board of InitLogic of a size within the bounds of the game
InitRaw ==
    /\ InitLogic
    /\ <<ROWS, COLUMNS>> \in BoardSizes

\* what a call leaves alone; crashed records that the call raised
RawFrame ==
    UNCHANGED <<ROWS, COLUMNS, NUM_MINES, mine_grid, adjacency_grid, game_state,
                remaining_safe, is_first_click, start_ticks, end_ticks,
                exclude_arg, menu, call, flagged>>

\* reveal_cell(r, c, mine_grid, adjacency_grid, revealed, flagged), any r, c
CallRevealCellAt(cell) ==
    LET res == RevealCellAt(cell, mine_grid, adjacency_grid, revealed, flagged,
                            ROWS, COLUMNS)
    IN  /\ InPlay
        /\ event' = Event("reveal_cell", cell, FALSE)
        /\ crashed' = res.raised
        /\ hit_mine' = res.hit_mine
        /\ opened' = res.n
        /\ revealed' = res.revealed
        /\ RawFrame

\* chord_reveal(r, c, mine_grid, adjacency_grid, revealed, flagged), any r, c
CallChordRevealAt(cell) ==
    LET res == ChordRevealAt(cell, mine_grid, adjacency_grid, revealed, flagged,
                             ROWS, COLUMNS)
    IN  /\ InPlay
        /\ event' = Event("chord_reveal", cell, FALSE)
        /\ crashed' = res.raised
        /\ hit_mine' = res.hit_mine
        /\ opened' = res.n
        /\ revealed' = res.revealed
        /\ RawFrame

\* the caller's flag toggle between the calls, on a cell of the grid
CallToggleFlagRaw(cell) ==
    /\ InPlay
    /\ event' = Event("toggle_flag", cell, FALSE)
    /\ flagged' = ToggleFlag(cell)
    /\ CountTrue(flagged') <= MaxFlags
    /\ NoCall
    /\ crashed' = FALSE
    /\ UNCHANGED <<ROWS, COLUMNS, NUM_MINES, mine_grid, adjacency_grid, game_state,
                   remaining_safe, is_first_click, start_ticks, end_ticks,
                   exclude_arg, menu, call, revealed>>

NextRaw ==
    \/ \E cell \in RawCoords : CallRevealCellAt(cell)
    \/ \E cell \in RawCoords : CallChordRevealAt(cell)
    \/ \E cell \in Cells(ROWS, COLUMNS) : CallToggleFlagRaw(cell)

SpecRaw == InitRaw /\ [][NextRaw]_vars

-----------------------------------------------------------------------------
(* reveal_cell and chord_reveal on a grid of any size: cfg.ROWS and          *)
(* cfg.COLUMNS are attributes of the module config, the grids are arguments *)

\* ROWS and COLUMNS as config.py sets them
ConfigDefaultRows == 8

ConfigDefaultColumns == 6

\* grid[nr][nc] for nr, nc >= 0 raises IndexError
OutsideGrid(q, grid) == q \notin DOMAIN grid

\* the while loop of reveal_cell where the neighbours that pass
\* "0 <= nr < cfg.ROWS and 0 <= nc < cfg.COLUMNS" need not be cells of the
\* grid: revealed[nr][nc] raises IndexError for the first that is none, with
\* the cells opened so far left open; raised tells it
RECURSIVE RevealLoopCfg(_, _, _, _, _, _, _, _)
RevealLoopCfg(stack, rev, n, mines, adjacency, flags, rows, columns) ==
    IF stack = <<>>
    THEN [raised |-> FALSE, hit_mine |-> FALSE, n |-> n, revealed |-> rev]
    ELSE
        LET cur == stack[Len(stack)]
            rest == SubSeq(stack, 1, Len(stack) - 1)
        IN  IF rev[cur] \/ flags[cur]
            THEN RevealLoopCfg(rest, rev, n, mines, adjacency, flags, rows, columns)
            ELSE
                LET rev2 == [rev EXCEPT ![cur] = TRUE]
                    neighbors == NeighborSeq(cur, rows, columns)
                IN  IF mines[cur]
                    THEN [raised |-> FALSE, hit_mine |-> TRUE, n |-> n + 1,
                          revealed |-> rev2]
                    ELSE IF adjacency[cur] # 0
                    THEN RevealLoopCfg(rest, rev2, n + 1, mines, adjacency, flags,
                                       rows, columns)
                    ELSE IF \E i \in 1 .. Len(neighbors) : OutsideGrid(neighbors[i], rev)
                    THEN [raised |-> TRUE, hit_mine |-> FALSE, n |-> 0,
                          revealed |-> rev2]
                    ELSE RevealLoopCfg(
                             rest \o SelectSeq(neighbors,
                                               LAMBDA q : ~rev2[q] /\ ~mines[q]),
                             rev2, n + 1, mines, adjacency, flags, rows, columns)

\* reveal_cell(r, c, ...) for a cell of the grid, with cfg.ROWS = rows and
\* cfg.COLUMNS = columns
RevealCellCfg(cell, mines, adjacency, rev, flags, rows, columns) ==
    IF rev[cell] \/ flags[cell]
    THEN [raised |-> FALSE, hit_mine |-> FALSE, n |-> 0, revealed |-> rev]
    ELSE RevealLoopCfg(<<cell>>, rev, 0, mines, adjacency, flags, rows, columns)

\* the loop over neighbors_coords of chord_reveal, from the i-th neighbour on;
\* an IndexError of reveal_cell ends it
RECURSIVE ChordLoopCfg(_, _, _, _, _, _, _, _, _)
ChordLoopCfg(neighbors_coords, i, rev, total_opened, mines, adjacency, flags, rows, columns) ==
    IF i > Len(neighbors_coords)
    THEN [raised |-> FALSE, hit_mine |-> FALSE, n |-> total_opened,
          revealed |-> rev]
    ELSE
        LET q == neighbors_coords[i]
        IN  IF ~flags[q] /\ ~rev[q]
            THEN
                LET res == RevealCellCfg(q, mines, adjacency, rev, flags, rows,
                                         columns)
                IN  IF res.raised THEN res
                    ELSE IF res.hit_mine
                    THEN [raised |-> FALSE, hit_mine |-> TRUE,
                          n |-> total_opened + res.n, revealed |-> res.revealed]
                    ELSE ChordLoopCfg(neighbors_coords, i + 1, res.revealed,
                                      total_opened + res.n, mines, adjacency,
                                      flags, rows, columns)
            ELSE ChordLoopCfg(neighbors_coords, i + 1, rev, total_opened, mines,
                              adjacency, flags, rows, columns)

\* chord_reveal(r, c, ...) for a cell of the grid, with cfg.ROWS = rows and
\* cfg.COLUMNS = columns: flagged[nr][nc] raises IndexError for the first
\* neighbour that is no cell of the grid, before anything is opened
ChordRevealCfg(cell, mines, adjacency, rev, flags, rows, columns) ==
    LET unchanged == [raised |-> FALSE, hit_mine |-> FALSE, n |-> 0,
                      revealed |-> rev]
        number_on_tile == adjacency[cell]
        neighbors_coords == NeighborSeq(cell, rows, columns)
    IN  IF ~rev[cell] THEN unchanged
        ELSE IF number_on_tile <= 0 THEN unchanged
        ELSE IF \E i \in 1 .. Len(neighbors_coords) :
                    OutsideGrid(neighbors_coords[i], rev)
        THEN [unchanged EXCEPT !.raised = TRUE]
        ELSE IF Len(SelectSeq(neighbors_coords, LAMBDA q : flags[q]))
                    # number_on_tile
        THEN unchanged
        ELSE ChordLoopCfg(neighbors_coords, 1, rev, 0, mines, adjacency, flags,
                          rows, columns)

\* the values of (cfg.ROWS, cfg.COLUMNS): the defaults of config.py and what a
\* caller may have assigned
CfgSizes == BoardSizes \cup {<<ConfigDefaultRows, ConfigDefaultColumns>>}

\* a board of any size of BoardSizes from create_mine_grid and calc_adjacency,
\* nothing revealed or flagged; ROWS and COLUMNS are cfg.ROWS and cfg.COLUMNS
InitCfg ==
    \E d \in BoardSizes, c \in CfgSizes :
        \E num_mines \in 0 .. Min(MaxMines, d[1] * d[2]) :
            /\ ROWS = c[1]
            /\ COLUMNS = c[2]
            /\ NUM_MINES = num_mines
            /\ mine_grid \in CreateMineGrid(d[1], d[2], num_mines, {})
            /\ adjacency_grid = CalcAdjacency(mine_grid)
            /\ revealed = NewGrid(d[1], d[2], FALSE)
            /\ flagged = NewGrid(d[1], d[2], FALSE)
            /\ game_state = "running"
            /\ remaining_safe = d[1] * d[2] - num_mines
            /\ is_first_click = FALSE
            /\ start_ticks = None
            /\ end_ticks = None
            /\ event = Event("none", NoCell, FALSE)
            /\ hit_mine = FALSE
            /\ opened = 0
            /\ crashed = FALSE
            /\ exclude_arg = {}
            /\ menu = NoMenu
            /\ call = Idle

\* reveal_cell(r, c, mine_grid, adjacency_grid, revealed, flagged), (r, c) a
\* cell of the grid
CallRevealCellCfg(cell) ==
    LET res == RevealCellCfg(cell, mine_grid, adjacency_grid, revealed, flagged,
                             ROWS, COLUMNS)
    IN  /\ InPlay
        /\ event' = Event("reveal_cell", cell, FALSE)
        /\ crashed' = res.raised
        /\ hit_mine' = res.hit_mine
        /\ opened' = res.n
        /\ revealed' = res.revealed
        /\ RawFrame

\* chord_reveal(r, c, mine_grid, adjacency_grid, revealed, flagged), (r, c) a
\* cell of the grid
CallChordRevealCfg(cell) ==
    LET res == ChordRevealCfg(cell, mine_grid, adjacency_grid, revealed, flagged,
                              ROWS, COLUMNS)
    IN  /\ InPlay
        /\ event' = Event("chord_reveal", cell, FALSE)
        /\ crashed' = res.raised
        /\ hit_mine' = res.hit_mine
        /\ opened' = res.n
        /\ revealed' = res.revealed
        /\ RawFrame

NextCfg ==
    \/ \E cell \in DOMAIN revealed : CallRevealCellCfg(cell)
    \/ \E cell \in DOMAIN revealed : CallChordRevealCfg(cell)
    \/ \E cell \in DOMAIN revealed : CallToggleFlagRaw(cell)

SpecCfg == InitCfg /\ [][NextCfg]_vars

-----------------------------------------------------------------------------
(* reveal_cell and chord_reveal one loop iteration at a time *)

\* WhileBody without "revealed[cr][cc] = True"
WhileBodyNoMark(stack, rev, n, mines, adjacency, flags, rows, columns) ==
    LET cur == stack[Len(stack)]
        rest == SubSeq(stack, 1, Len(stack) - 1)
    IN  IF rev[cur] \/ flags[cur]
        THEN [returned |-> FALSE, stack |-> rest, n |-> n, revealed |-> rev]
        ELSE IF mines[cur]
        THEN [returned |-> TRUE, stack |-> rest, n |-> n + 1, revealed |-> rev]
        ELSE IF adjacency[cur] = 0
        THEN [returned |-> FALSE,
              stack |-> rest \o SelectSeq(NeighborSeq(cur, rows, columns),
                                          LAMBDA q : ~rev[q] /\ ~mines[q]),
              n |-> n + 1, revealed |-> rev]
        ELSE [returned |-> FALSE, stack |-> rest, n |-> n + 1, revealed |-> rev]

\* one iteration of "while stack:" of reveal_cell, stack not empty: the work
\* list, newly_revealed and the revealed grid after it; returned tells that it
\* left by "return True, newly_revealed"
WhileBody(stack, rev, n, mines, adjacency, flags, rows, columns) ==
    LET cur == stack[Len(stack)]
        rest == SubSeq(stack, 1, Len(stack) - 1)
        rev2 == [rev EXCEPT ![cur] = TRUE]
    IN  IF rev[cur] \/ flags[cur]
        THEN [returned |-> FALSE, stack |-> rest, n |-> n, revealed |-> rev]
        ELSE IF mines[cur]
        THEN [returned |-> TRUE, stack |-> rest, n |-> n + 1, revealed |-> rev2]
        ELSE IF adjacency[cur] = 0
        THEN [returned |-> FALSE,
              stack |-> rest \o SelectSeq(NeighborSeq(cur, rows, columns),
                                          LAMBDA q : ~rev2[q] /\ ~mines[q]),
              n |-> n + 1, revealed |-> rev2]
        ELSE [returned |-> FALSE, stack |-> rest, n |-> n + 1, revealed |-> rev2]

\* what a step of a call leaves alone
StepFrame ==
    UNCHANGED <<ROWS, COLUMNS, NUM_MINES, mine_grid, adjacency_grid, flagged,
                game_state, remaining_safe, is_first_click, start_ticks,
                end_ticks, crashed, exclude_arg, menu>>

\* the caller gets (hit, n) from the call it made
ReturnToCaller(hit, n) ==
    /\ call' = Idle
    /\ hit_mine' = hit
    /\ opened' = n

\* the call goes on: the caller has no result yet
NotReturned ==
    /\ hit_mine' = FALSE
    /\ opened' = 0

\* reveal_cell returns (hit, n): to the caller, or to the loop of chord_reveal,
\* which adds n to total_opened and returns on a hit
ReturnFromRevealCell(hit, n) ==
    IF ~call.in_chord THEN ReturnToCaller(hit, n)
    ELSE IF hit THEN ReturnToCaller(TRUE, call.total_opened + n)
    ELSE /\ call' = [call EXCEPT !.pc = "for", !.stack = <<>>,
                                 !.newly_revealed = 0, !.i = call.i + 1,
                                 !.total_opened = call.total_opened + n]
         /\ NotReturned

\* the caller calls reveal_cell(r, c, ...): the call up to its loop
EnterRevealCell(cell) ==
    /\ call.pc = "idle"
    /\ InPlay
    /\ event' = Event("reveal_cell", cell, FALSE)
    /\ IF revealed[cell] \/ flagged[cell]
       THEN ReturnToCaller(FALSE, 0)
       ELSE /\ call' = [Idle EXCEPT !.pc = "while", !.stack = <<cell>>]
            /\ NotReturned
    /\ UNCHANGED revealed
    /\ StepFrame

\* the test of "while stack:" and one iteration
WhileStep ==
    /\ call.pc = "while"
    /\ IF call.stack = <<>>
       THEN /\ ReturnFromRevealCell(FALSE, call.newly_revealed)
            /\ UNCHANGED revealed
       ELSE LET res == WhileBody(call.stack, revealed, call.newly_revealed,
                                 mine_grid, adjacency_grid, flagged, ROWS, COLUMNS)
            IN  /\ revealed' = res.revealed
                /\ IF res.returned
                   THEN ReturnFromRevealCell(TRUE, res.n)
                   ELSE /\ call' = [call EXCEPT !.stack = res.stack,
                                                !.newly_revealed = res.n]
                        /\ NotReturned
    /\ UNCHANGED event
    /\ StepFrame

\* the caller calls chord_reveal(r, c, ...): the call up to its last loop
EnterChordReveal(cell) ==
    LET number_on_tile == adjacency_grid[cell]
        neighbors_coords == NeighborSeq(cell, ROWS, COLUMNS)
        flagged_count == Len(SelectSeq(neighbors_coords, LAMBDA q : flagged[q]))
    IN  /\ call.pc = "idle"
        /\ InPlay
        /\ event' = Event("chord_reveal", cell, FALSE)
        /\ IF ~revealed[cell] \/ number_on_tile <= 0
                \/ flagged_count # number_on_tile
           THEN ReturnToCaller(FALSE, 0)
           ELSE /\ call' = [Idle EXCEPT !.pc = "for", !.in_chord = TRUE,
                                        !.neighbors_coords = neighbors_coords,
                                        !.i = 1]
                /\ NotReturned
        /\ UNCHANGED revealed
        /\ StepFrame

\* one iteration of "for nr, nc in neighbors_coords:" up to the call of
\* reveal_cell, whose test of the seed is the test made here, or the end of the
\* loop
ForStep ==
    /\ call.pc = "for"
    /\ IF call.i > Len(call.neighbors_coords)
       THEN ReturnToCaller(FALSE, call.total_opened)
       ELSE LET q == call.neighbors_coords[call.i]
            IN  /\ IF ~flagged[q] /\ ~revealed[q]
                   THEN call' = [call EXCEPT !.pc = "while", !.stack = <<q>>,
                                             !.newly_revealed = 0]
                   ELSE call' = [call EXCEPT !.i = call.i + 1]
                /\ NotReturned
    /\ UNCHANGED <<event, revealed>>
    /\ StepFrame

\* the caller's flag toggle between the calls
ToggleFlagBetweenCalls(cell) ==
    /\ call.pc = "idle"
    /\ CallToggleFlag(cell)

\* a step of the call in progress
RunCall == WhileStep \/ ForStep

NextSteps ==
    \/ \E cell \in Cells(ROWS, COLUMNS) : EnterRevealCell(cell)
    \/ \E cell \in Cells(ROWS, COLUMNS) : EnterChordReveal(cell)
    \/ WhileStep
    \/ ForStep
    \/ \E cell \in Cells(ROWS, COLUMNS) : ToggleFlagBetweenCalls(cell)

SpecSteps == InitLogic /\ [][NextSteps]_vars

\* Python runs the call in progress on: no other thread, no await
SpecStepsFair == SpecSteps /\ WF_vars(RunCall)

-----------------------------------------------------------------------------
(* create_mine_grid and calc_adjacency called directly *)

\* no grid yet
NoGrid == <<>>

\* the sizes of the grids within the bounds of SpecGrid
GridSizes ==
    {d \in (1 .. MaxGridRows) \X (1 .. MaxGridColumns) : d[1] * d[2] <= MaxGridCells}

\* the exclude sets tried for a rows x columns grid: up to MaxExclude
\* coordinates of the grid or the one just off its corner
ExcludeSets(rows, columns) ==
    {E \in SUBSET (Cells(rows, columns) \cup {<<rows, columns>>}) :
        Cardinality(E) <= MaxExclude}

\* the arguments of the call to come: rows, columns, num_mines (up to one more
\* than the grid has cells) and exclude
InitGrid ==
    \E d \in GridSizes :
        \E num_mines \in 0 .. d[1] * d[2] + 1, E \in ExcludeSets(d[1], d[2]) :
            /\ ROWS = d[1]
            /\ COLUMNS = d[2]
            /\ NUM_MINES = num_mines
            /\ exclude_arg = E
            /\ menu = NoMenu
            /\ call = Idle
            /\ mine_grid = NoGrid
            /\ adjacency_grid = NoGrid
            /\ revealed = NoGrid
            /\ flagged = NoGrid
            /\ game_state = "running"
            /\ remaining_safe = 0
            /\ is_first_click = FALSE
            /\ start_ticks = None
            /\ end_ticks = None
            /\ event = Event("none", NoCell, FALSE)
            /\ hit_mine = FALSE
            /\ opened = 0
            /\ crashed = FALSE

\* what a call of create_mine_grid or calc_adjacency leaves alone
GridFrame ==
    UNCHANGED <<ROWS, COLUMNS, NUM_MINES, exclude_arg, menu, call, revealed, flagged,
                game_state, remaining_safe, is_first_click, start_ticks,
                end_ticks, hit_mine, opened>>

\* mine_grid = create_mine_grid(rows, columns, num_mines, exclude); crashed
\* records that the call raised ValueError
CallCreateMineGrid ==
    /\ event.type = "none"
    /\ event' = Event("create_mine_grid", NoCell, FALSE)
    /\ IF CreateMineGridRaises(ROWS, COLUMNS, NUM_MINES, exclude_arg)
       THEN /\ crashed' = TRUE
            /\ UNCHANGED mine_grid
       ELSE /\ mine_grid' \in CreateMineGrid(ROWS, COLUMNS, NUM_MINES, exclude_arg)
            /\ UNCHANGED crashed
    /\ UNCHANGED adjacency_grid
    /\ GridFrame

\* adjacency_grid = calc_adjacency(mine_grid)
CallCalcAdjacency ==
    /\ event.type = "create_mine_grid"
    /\ ~crashed
    /\ event' = Event("calc_adjacency", NoCell, FALSE)
    /\ adjacency_grid' = CalcAdjacency(mine_grid)
    /\ UNCHANGED <<mine_grid, crashed>>
    /\ GridFrame

NextGrid ==
    \/ CallCreateMineGrid
    \/ CallCalcAdjacency

SpecGrid == InitGrid /\ [][NextGrid]_vars

-----------------------------------------------------------------------------
(* minesweeper/menu.py: run_menu *)

\* cfg.MIN_ROWS, cfg.MAX_ROWS, cfg.MIN_COLS, cfg.MAX_COLS
MIN_ROWS == 6

MAX_ROWS == 16

MIN_COLS == 6

MAX_COLS == 20

\* the limits and the step of the tile size in run_menu
MenuMinTile == 16

MenuMaxTile == 96

MenuTileStep == 4

\* the (rows, cols, mines) of the preset buttons
BeginnerPreset == <<9, 9, 10>>

IntermediatePreset == <<16, 16, 40>>

ExpertPreset == <<16, 30, 99>>

\* max(cfg.MIN_ROWS, min(cfg.MAX_ROWS, rows))
ClampRows(rows) == Max(MIN_ROWS, Min(MAX_ROWS, rows))

\* max(cfg.MIN_COLS, min(cfg.MAX_COLS, cols))
ClampCols(cols) == Max(MIN_COLS, Min(MAX_COLS, cols))

\* ClampStartMines without the clamp
KeepStartMines(mines, rows, cols) == mines

\* mines = max(1, min(mines, rows * cols - 1)), at the entry and on Start
ClampStartMines(mines, rows, cols) == Max(1, Min(mines, rows * cols - 1))

\* the locals of run_menu after its first four assignments
MenuEntry(initial_rows, initial_cols, initial_mines, initial_tile) ==
    LET rows == ClampRows(initial_rows)
        cols == ClampCols(initial_cols)
    IN  [state |-> "open", clicks |-> 0, rows |-> rows, cols |-> cols,
         mines |-> ClampStartMines(initial_mines, rows, cols),
         tile |-> Max(MenuMinTile, Min(MenuMaxTile, initial_tile))]

\* the top of a frame: max_mines = max(1, rows * cols - 1);
\* mines = min(mines, max_mines)
MenuFrameTop(m) ==
    [m EXCEPT !.mines = Min(m.mines, Max(1, m.rows * m.cols - 1))]

\* a click on a preset button
MenuPreset(m, preset) ==
    LET rows == ClampRows(preset[1])
        cols == ClampCols(preset[2])
    IN  [m EXCEPT !.rows = rows, !.cols = cols,
                  !.mines = Min(preset[3], Max(1, rows * cols - 1))]

\* the buttons of the menu; "quit" is the Quit button or pygame.QUIT
MenuButtons ==
    {"beginner", "intermediate", "expert", "rows_minus", "rows_plus",
     "cols_minus", "cols_plus", "mines_minus", "mines_plus", "tile_minus",
     "tile_plus", "start", "quit"}

\* the branch of the click handler for a button
MenuHandle(m, button) ==
    CASE button = "beginner" -> MenuPreset(m, BeginnerPreset)
      [] button = "intermediate" -> MenuPreset(m, IntermediatePreset)
      [] button = "expert" -> MenuPreset(m, ExpertPreset)
      [] button = "rows_minus" -> [m EXCEPT !.rows = Max(MIN_ROWS, m.rows - 1)]
      [] button = "rows_plus" -> [m EXCEPT !.rows = Min(MAX_ROWS, m.rows + 1)]
      [] button = "cols_minus" -> [m EXCEPT !.cols = Max(MIN_COLS, m.cols - 1)]
      [] button = "cols_plus" -> [m EXCEPT !.cols = Min(MAX_COLS, m.cols + 1)]
      [] button = "mines_minus" -> [m EXCEPT !.mines = Max(1, m.mines - 1)]
      [] button = "mines_plus" ->
             [m EXCEPT !.mines = Min(m.rows * m.cols - 1, m.mines + 1)]
      [] button = "tile_minus" ->
             [m EXCEPT !.tile = Max(MenuMinTile, m.tile - MenuTileStep)]
      [] button = "tile_plus" ->
             [m EXCEPT !.tile = Min(MenuMaxTile, m.tile + MenuTileStep)]
      [] button = "start" ->
             [m EXCEPT !.state = "start",
                       !.rows = ClampRows(m.rows),
                       !.cols = ClampCols(m.cols),
                       !.mines = ClampStartMines(m.mines, ClampRows(m.rows),
                                                 ClampCols(m.cols))]
      [] button = "quit" -> [m EXCEPT !.state = "quit"]

\* the initial values run_menu is entered with: around the limits
MenuInitialRows == {MIN_ROWS - 1, MIN_ROWS + 1, MAX_ROWS + 1}

MenuInitialCols == {MIN_COLS - 1, MAX_COLS - 1, MAX_COLS + 1}

MenuInitialMines(initial_rows, initial_cols) ==
    LET cells == ClampRows(initial_rows) * ClampCols(initial_cols)
    IN  {0, 2, cells - 1, cells}

MenuInitialTiles ==
    {MenuMinTile - 1, MenuMinTile + 1, MenuMaxTile - 1, MenuMaxTile + 1}

\* run_menu(initial_rows, initial_cols, initial_mines, initial_tile) up to its
\* loop
InitMenu ==
    \E initial_rows \in MenuInitialRows, initial_cols \in MenuInitialCols,
       initial_tile \in MenuInitialTiles :
        \E initial_mines \in MenuInitialMines(initial_rows, initial_cols) :
            /\ menu = MenuEntry(initial_rows, initial_cols, initial_mines,
                                initial_tile)
            /\ ROWS = 1
            /\ COLUMNS = 1
            /\ NUM_MINES = 0
            /\ call = Idle
            /\ exclude_arg = {}
            /\ mine_grid = NoGrid
            /\ adjacency_grid = NoGrid
            /\ revealed = NoGrid
            /\ flagged = NoGrid
            /\ game_state = "running"
            /\ remaining_safe = 0
            /\ is_first_click = FALSE
            /\ start_ticks = None
            /\ end_ticks = None
            /\ event = Event("none", NoCell, FALSE)
            /\ hit_mine = FALSE
            /\ opened = 0
            /\ crashed = FALSE

\* one left-click event of the loop "for event in pygame.event.get()";
\* new_frame tells that it is the first event its frame handles, so that the
\* top of the frame ran since the event before
MenuClick(button, new_frame) ==
    /\ menu.state = "open"
    /\ menu.clicks < MaxMenuClicks
    /\ menu.clicks = 0 => new_frame
    /\ menu' = [MenuHandle(IF new_frame THEN MenuFrameTop(menu) ELSE menu, button)
                    EXCEPT !.clicks = menu.clicks + 1]
    /\ event' = Event(button, NoCell, FALSE)
    /\ UNCHANGED <<ROWS, COLUMNS, NUM_MINES, mine_grid, adjacency_grid, revealed,
                   flagged, game_state, remaining_safe, is_first_click,
                   start_ticks, end_ticks, hit_mine, opened, crashed,
                   exclude_arg, call>>

NextMenu ==
    \E button \in MenuButtons, new_frame \in BOOLEAN : MenuClick(button, new_frame)

SpecMenu == InitMenu /\ [][NextMenu]_vars

-----------------------------------------------------------------------------
(* Properties *)

MouseEvents == {"left", "middle", "right"}

ResetEvents == {"key_r", "key_m"}

\* the cells of the board
Board == DOMAIN mine_grid

\* the number of revealed cells that hold no mine
RevealedSafe == Cardinality({p \in Board : revealed[p] /\ ~mine_grid[p]})

\* no cell of a revealed grid is revealed
NoneRevealed(rev) == \A p \in DOMAIN rev : ~rev[p]

\* C1: first-click safety. The step of a game that reveals its first cell
\* (no cell revealed before it, some cell after it) does not hit a mine and
\* does not end the game as lost.
C1_FirstRevealIsSafe ==
    [][(NoneRevealed(revealed) /\ ~NoneRevealed(revealed'))
          => (~hit_mine' /\ game_state' # "lost")]_vars

\* C2: the counter invariant. While the game runs, and in the state a
\* transition to won or lost leaves (a state the game then stays in until a
\* reset), remaining_safe plus the number of revealed cells without a mine is
\* ROWS * COLUMNS - NUM_MINES.
C2_CounterInvariant ==
    remaining_safe + RevealedSafe = ROWS * COLUMNS - NUM_MINES

\* C2, while the game runs only
C2_CounterInvariantRunning ==
    game_state = "running" => C2_CounterInvariant

\* the chosen board fields of the game, as C4 and C8 list them
BoardState ==
    <<mine_grid, adjacency_grid, revealed, flagged, remaining_safe, game_state>>

\* C4: the outcome is terminal. Once the game is won or lost, no mouse event
\* (left, middle, right) changes the mine layout, the adjacency grid, the
\* revealed or flagged grid, remaining_safe or game_state; only the R and M
\* keys leave the state.
C4_TerminalUntilReset ==
    [][(game_state # "running" /\ event'.type \notin ResetEvents)
          => UNCHANGED BoardState]_vars

\* C4's case: a right click was handled while the game was lost, with a cell
\* it could have flagged
C4_Witness ==
    /\ game_state = "lost"
    /\ event.type = "right"
    /\ ~revealed[event.cell]

\* every cell without a mine is revealed
AllSafeRevealed == \A p \in Board : ~mine_grid[p] => revealed[p]

\* some cell with a mine is revealed
SomeMineRevealed == \E p \in Board : mine_grid[p] /\ revealed[p]

\* C5, the states: won means every safe cell and no mine is revealed and
\* remaining_safe is 0; running means some safe cell is unrevealed
C5_States ==
    /\ game_state = "won" =>
           (AllSafeRevealed /\ ~SomeMineRevealed /\ remaining_safe = 0)
    /\ game_state = "running" => ~AllSafeRevealed

\* C5, the steps: the game becomes won at exactly the reveal or chord step
\* that hits no mine and leaves every safe cell revealed
C5_Steps ==
    (game_state = "running" /\ game_state' = "won")
        <=> (/\ game_state = "running"
             /\ event'.type \in {"left", "middle"}
             /\ ~crashed'
             /\ ~hit_mine'
             /\ AllSafeRevealed')

\* C5: win detection. The outcome becomes won at exactly the reveal or chord
\* step that hits no mine and leaves every cell without a mine revealed; in a
\* won state all safe cells and no mine are revealed and remaining_safe is 0;
\* in a running state some safe cell is unrevealed.
C5_WinDetection == [](C5_States) /\ [][C5_Steps]_vars

\* C5 on the boards that have a cell without a mine
C5_WinDetectionWithSafeCell ==
    /\ [](NUM_MINES < ROWS * COLUMNS => C5_States)
    /\ [][NUM_MINES < ROWS * COLUMNS => C5_Steps]_vars

\* C6: loss detection. The game is lost if and only if some mine is revealed
\* (so no mine is revealed while it runs), and it becomes lost at exactly the
\* reveal or chord step that reports hit_mine.
C6_LossDetection ==
    /\ []((game_state = "lost") <=> SomeMineRevealed)
    /\ [][(game_state # "lost" /\ game_state' = "lost")
             <=> (/\ game_state = "running"
                  /\ event'.type \in {"left", "middle"}
                  /\ hit_mine')]_vars

\* C6's case: a chord hit a mine and the game is lost
C6_Witness ==
    /\ game_state = "lost"
    /\ event.type = "middle"
    /\ hit_mine
    /\ SomeMineRevealed

\* C8: reveal is a no-op on a revealed or flagged cell. A left click that
\* reveals (not the left+right chord) on a cell that is revealed or flagged
\* gets (False, 0) from reveal_cell and leaves the mine layout, the adjacency
\* grid, the revealed and flagged grids, remaining_safe and game_state as they
\* were.
C8_LeftClickNoOp ==
    [][(/\ game_state = "running"
        /\ event'.type = "left"
        /\ ~IsChordClick(event'.cell, event'.pressed_right)
        /\ (revealed[event'.cell] \/ flagged[event'.cell]))
          => (/\ ~hit_mine'
              /\ opened' = 0
              /\ UNCHANGED BoardState)]_vars

\* C8 for reveal_cell itself (SpecLogic): on a revealed or flagged cell it
\* returns (False, 0) and changes no grid
C8_RevealCellNoOp ==
    [][(/\ event'.type = "reveal_cell"
        /\ (revealed[event'.cell] \/ flagged[event'.cell]))
          => (/\ ~hit_mine'
              /\ opened' = 0
              /\ UNCHANGED BoardState)]_vars

\* two different cells of a grid touch (8 directions, no wraparound)
Touch(p, q) ==
    /\ p # q
    /\ p[1] - q[1] \in {-1, 0, 1}
    /\ p[2] - q[2] \in {-1, 0, 1}

\* the neighbours of a cell on the board
NeighborsOf(cell) == {q \in Board : Touch(cell, q)}

\* the number of flagged neighbours of a cell
FlaggedAround(cell) == Cardinality({q \in NeighborsOf(cell) : flagged[q]})

\* the neighbours of a cell that are neither revealed nor flagged
HiddenAround(cell) == {q \in NeighborsOf(cell) : ~revealed[q] /\ ~flagged[q]}

\* the cells a step reveals
NewlyRevealed == {p \in Board : ~revealed[p] /\ revealed'[p]}

\* C3: flood fill never exposes a mine. A reveal_cell call whose seed holds no
\* mine returns hit_mine = False, and every mine that was unrevealed before
\* the call is unrevealed after it.
C3_FloodFillExposesNoMine ==
    [][(event'.type = "reveal_cell" /\ ~mine_grid[event'.cell])
          => (/\ ~hit_mine'
              /\ \A p \in Board :
                     (mine_grid[p] /\ ~revealed[p]) => ~revealed'[p])]_vars

\* C3's case: a reveal_cell call on a safe seed flood-filled (it opened several
\* cells) up to the numbers around a mine, which stays unrevealed
C3_Witness ==
    /\ event.type = "reveal_cell"
    /\ ~mine_grid[event.cell]
    /\ ~hit_mine
    /\ opened >= 3
    /\ \E p \in Board :
           /\ mine_grid[p] /\ ~revealed[p] /\ ~flagged[p]
           /\ \E q \in NeighborsOf(p) : revealed[q]

\* C7: a direct mine hit. reveal_cell on an unrevealed, unflagged cell with a
\* mine returns (True, 1), and that cell is the only one whose revealed value
\* it changes.
C7_DirectMineHit ==
    [][(/\ event'.type = "reveal_cell"
        /\ mine_grid[event'.cell]
        /\ ~revealed[event'.cell]
        /\ ~flagged[event'.cell])
          => (/\ hit_mine'
              /\ opened' = 1
              /\ revealed' = [revealed EXCEPT ![event'.cell] = TRUE])]_vars

\* C7's case: reveal_cell hit a mine that has an unrevealed neighbour, and
\* another mine is still unrevealed
C7_Witness ==
    /\ event.type = "reveal_cell"
    /\ mine_grid[event.cell]
    /\ revealed[event.cell]
    /\ hit_mine
    /\ opened = 1
    /\ \E q \in NeighborsOf(event.cell) : ~mine_grid[q] /\ ~revealed[q]
    /\ \E p \in Board : mine_grid[p] /\ ~revealed[p]

\* the precondition of C9 for a chord_reveal call on a cell: it is revealed,
\* its number is positive and equals the number of flagged neighbours, and
\* none of its unrevealed unflagged neighbours holds a mine
ChordReady(cell) ==
    /\ revealed[cell]
    /\ adjacency_grid[cell] > 0
    /\ FlaggedAround(cell) = adjacency_grid[cell]
    /\ \A q \in HiddenAround(cell) : ~mine_grid[q]

\* C9 as claimed: a chord_reveal call whose precondition holds, with k
\* unrevealed unflagged neighbours, returns (False, k), and all k neighbours
\* are revealed afterwards.
C9_ChordOpensExactlyK ==
    [][(event'.type = "chord_reveal" /\ ChordReady(event'.cell))
          => (/\ ~hit_mine'
              /\ opened' = Cardinality(HiddenAround(event'.cell))
              /\ \A q \in HiddenAround(event'.cell) : revealed'[q])]_vars

\* C9 as amended: a chord_reveal call whose precondition holds, with k
\* unrevealed unflagged neighbours, returns hit_mine = False and
\* total_opened = the number of cells the call reveals, which is at least k;
\* all k neighbours are revealed afterwards, and no flagged cell and no mine is.
C9_ChordOpensAtLeastK ==
    [][(event'.type = "chord_reveal" /\ ChordReady(event'.cell))
          => (/\ ~hit_mine'
              /\ opened' = Cardinality(NewlyRevealed)
              /\ opened' >= Cardinality(HiddenAround(event'.cell))
              /\ \A q \in HiddenAround(event'.cell) : revealed'[q]
              /\ \A p \in NewlyRevealed : ~flagged[p] /\ ~mine_grid[p])]_vars

\* C9's case, the scenario of the specification: a chord_reveal call on a cell
\* with the number 2 and 2 flagged neighbours opened 3 cells, its other
\* neighbours, without a mine hit
C9_Witness ==
    /\ event.type = "chord_reveal"
    /\ revealed[event.cell]
    /\ adjacency_grid[event.cell] = 2
    /\ FlaggedAround(event.cell) = 2
    /\ Cardinality({q \in NeighborsOf(event.cell) : ~flagged[q]}) = 3
    /\ HiddenAround(event.cell) = {}
    /\ opened = 3
    /\ ~hit_mine

C11_NeverRevealedAndFlagged ==
    \A p \in Board : ~(revealed[p] /\ flagged[p])

\* C11 as amended: while the game is running or won no cell is both revealed
\* and flagged; after a loss the only cells both revealed and flagged are
\* flagged mines, which the loss handling reveals with all other mines.
C11_RevealedAndFlaggedOnlyLostMines ==
    \A p \in Board :
        (revealed[p] /\ flagged[p]) => (game_state = "lost" /\ mine_grid[p])

\* C11's case: a lost game with a flagged mine that the loss handling
\* revealed, and a flagged cell without a mine that is still unrevealed
C11_Witness ==
    /\ game_state = "lost"
    /\ \E p \in Board : mine_grid[p] /\ flagged[p] /\ revealed[p]
    /\ \E q \in Board : ~mine_grid[q] /\ flagged[q] /\ ~revealed[q]
    /\ \E q \in Board : ~mine_grid[q] /\ revealed[q]

\* the cells of a grid that exclude leaves eligible for a mine
Eligible ==
    {p \in (0 .. ROWS - 1) \X (0 .. COLUMNS - 1) : p \notin exclude_arg}

\* C12: the postcondition of create_mine_grid. For rows >= 1, columns >= 1 and
\* num_mines not above the number of cells outside exclude, the returned grid
\* has exactly rows x columns entries, exactly num_mines of them True, and none
\* of the True entries at a coordinate of exclude.
C12_LayoutPostcondition ==
    (event.type = "create_mine_grid" /\ NUM_MINES <= Cardinality(Eligible))
        => /\ ~crashed
           /\ DOMAIN mine_grid = (0 .. ROWS - 1) \X (0 .. COLUMNS - 1)
           /\ Cardinality(DOMAIN mine_grid) = ROWS * COLUMNS
           /\ Cardinality({p \in DOMAIN mine_grid : mine_grid[p]}) = NUM_MINES
           /\ \A p \in DOMAIN mine_grid : mine_grid[p] => p \notin exclude_arg

\* C12's case: create_mine_grid returned a grid with a mine at every cell
\* outside a non-empty exclude
C12_Witness ==
    /\ event.type = "create_mine_grid"
    /\ ~crashed
    /\ exclude_arg \cap DOMAIN mine_grid # {}
    /\ NUM_MINES = Cardinality(Eligible)
    /\ NUM_MINES >= 2
    /\ \A p \in DOMAIN mine_grid : mine_grid[p] <=> p \notin exclude_arg

\* C13: create_mine_grid raises ValueError and returns no grid exactly when
\* num_mines exceeds the number of cells outside exclude; for
\* 0 <= num_mines <= that number it does not raise.
C13_LayoutFailure ==
    event.type = "create_mine_grid"
        => /\ crashed <=> NUM_MINES > Cardinality(Eligible)
           /\ crashed => mine_grid = NoGrid
           /\ ~crashed => mine_grid # NoGrid

\* C13's case: create_mine_grid raised for a num_mines that the grid has
\* cells for, but not outside exclude
C13_Witness ==
    /\ event.type = "create_mine_grid"
    /\ crashed
    /\ mine_grid = NoGrid
    /\ NUM_MINES <= ROWS * COLUMNS
    /\ NUM_MINES = Cardinality(Eligible) + 1

\* the adjacency of a cell by definition: -1 on a mine, else the number of
\* cells of the grid with a mine that touch it
ReferenceAdjacency(p) ==
    IF mine_grid[p] THEN -1
    ELSE Cardinality({q \in DOMAIN mine_grid : Touch(p, q) /\ mine_grid[q]})

\* C14: calc_adjacency equals the reference definition for every layout: -1 on
\* each mine, and on each other cell the number of mines among its up to 8
\* neighbours, clipped at the grid boundary without wraparound; the values lie
\* in -1 .. 8, a layout without mines gives all zeros and a layout of mines
\* only gives all -1.
C14_AdjacencyIsReference ==
    event.type = "calc_adjacency"
        => /\ DOMAIN adjacency_grid = DOMAIN mine_grid
           /\ \A p \in DOMAIN mine_grid :
                  /\ adjacency_grid[p] = ReferenceAdjacency(p)
                  /\ adjacency_grid[p] \in -1 .. 8
           /\ (\A p \in DOMAIN mine_grid : ~mine_grid[p])
                  => \A p \in DOMAIN mine_grid : adjacency_grid[p] = 0
           /\ (\A p \in DOMAIN mine_grid : mine_grid[p])
                  => \A p \in DOMAIN mine_grid : adjacency_grid[p] = -1

\* C14's case: calc_adjacency counted 8 mines around a cell in the middle of
\* a grid
C14_Witness ==
    /\ event.type = "calc_adjacency"
    /\ \E p \in DOMAIN adjacency_grid : adjacency_grid[p] = 8

\* C15: the flag toggle. In a running game a right-click on a revealed cell
\* changes no flag; on an unrevealed cell it flips that cell's flag and no
\* other; either way the revealed grid, the mine layout, the adjacency grid,
\* remaining_safe and game_state stay as they are.
C15_ToggleFlagFrame ==
    [][(game_state = "running" /\ event'.type = "right")
          => (/\ flagged' = IF revealed[event'.cell] THEN flagged
                            ELSE [flagged EXCEPT
                                     ![event'.cell] = ~flagged[event'.cell]]
              /\ UNCHANGED <<revealed, mine_grid, adjacency_grid, remaining_safe,
                             game_state, is_first_click>>)]_vars

\* C15's case: a right-click took the flag off an unrevealed cell again while
\* another cell kept its flag and some cell is revealed
C15_Witness ==
    /\ game_state = "running"
    /\ event.type = "right"
    /\ ~revealed[event.cell]
    /\ ~flagged[event.cell]
    /\ \E q \in Board : q # event.cell /\ flagged[q]
    /\ \E q \in Board : revealed[q]

\* C16: revealed is monotonic. Between two resets (keys R and M) no event,
\* whether a reveal, a chord, a flag toggle, the first click with its
\* regeneration of the layout, or the handling of a loss, turns a cell's
\* revealed value from True to False.
C16_RevealedMonotonic ==
    [][event'.type \notin ResetEvents
          => \A p \in DOMAIN revealed :
                 revealed[p] => (p \in DOMAIN revealed' /\ revealed'[p])]_vars

\* C16's case: a left-click lost the game after safe cells had been revealed;
\* they are still revealed next to the mines
C16_Witness ==
    /\ game_state = "lost"
    /\ event.type = "left"
    /\ hit_mine
    /\ Cardinality({p \in Board : revealed[p] /\ ~mine_grid[p]}) >= 2
    /\ \A p \in Board : mine_grid[p] => revealed[p]

\* C17: the configuration bounds. Every board of the game, whether configured
\* from the command line, from the menu at start-up or from the menu behind
\* key M, has ROWS >= 1, COLUMNS >= 1 and 1 <= NUM_MINES <= ROWS * COLUMNS - 1,
\* and create_mine_grid with the first-click exclusion never raises.
C17_ConfigBounds ==
    /\ ROWS >= 1
    /\ COLUMNS >= 1
    /\ 1 <= NUM_MINES
    /\ NUM_MINES <= ROWS * COLUMNS - 1
    /\ ~crashed

\* C17 on the boards of two cells or more
C17_ConfigBoundsFromTwoCells ==
    ROWS * COLUMNS >= 2 => C17_ConfigBounds

\* the call of the step has coordinates outside the grid
OutOfGridCall ==
    /\ event'.type \in {"reveal_cell", "chord_reveal"}
    /\ event'.cell \notin (0 .. ROWS - 1) \X (0 .. COLUMNS - 1)

\* C18: out-of-bounds rejection. reveal_cell and chord_reveal called with
\* coordinates outside the grid (r < 0, r >= ROWS, c < 0 or c >= COLUMNS) leave
\* the revealed grid, the flagged grid, remaining_safe and game_state unchanged.
C18_OutOfBoundsRejected ==
    [][OutOfGridCall
          => UNCHANGED <<revealed, flagged, remaining_safe, game_state>>]_vars

\* C18 for the coordinates at or beyond the far edges: the call raises
\* IndexError and changes nothing
C18_BeyondFarEdgeRaises ==
    [][(OutOfGridCall /\ (event'.cell[1] >= ROWS \/ event'.cell[2] >= COLUMNS))
          => (crashed' /\ UNCHANGED <<revealed, flagged, remaining_safe,
                                      game_state>>)]_vars

\* on the coordinates of the grid RevealCellAt and ChordRevealAt are RevealCell
\* and ChordReveal
RawAgreesOnGrid ==
    \A cell \in Cells(ROWS, COLUMNS) :
        LET a == RevealCellAt(cell, mine_grid, adjacency_grid, revealed, flagged,
                              ROWS, COLUMNS)
            b == RevealCell(cell, mine_grid, adjacency_grid, revealed, flagged,
                            ROWS, COLUMNS)
            c == ChordRevealAt(cell, mine_grid, adjacency_grid, revealed, flagged,
                               ROWS, COLUMNS)
            d == ChordReveal(cell, mine_grid, adjacency_grid, revealed, flagged,
                             ROWS, COLUMNS)
        IN  /\ <<a.hit_mine, a.n, a.revealed>> = <<b.hit_mine, b.n, b.revealed>>
            /\ <<c.hit_mine, c.n, c.revealed>> = <<d.hit_mine, d.n, d.revealed>>
            /\ ~a.raised /\ ~c.raised

\* the least set that contains S and, for each of its cells with the number
\* 0, every cell touching it that is neither revealed nor flagged
RECURSIVE FloodSet(_)
FloodSet(S) ==
    LET T == S \cup {q \in Board :
                        /\ ~revealed[q] /\ ~flagged[q]
                        /\ \E p \in S : adjacency_grid[p] = 0 /\ Touch(p, q)}
    IN  IF T = S THEN S ELSE FloodSet(T)

\* the call of the step is reveal_cell on an unrevealed, unflagged cell
\* without a mine
SafeSeedCall ==
    /\ event'.type = "reveal_cell"
    /\ ~revealed[event'.cell]
    /\ ~flagged[event'.cell]
    /\ ~mine_grid[event'.cell]

\* C19: the flood-fill result. reveal_cell on an unrevealed, unflagged seed
\* without a mine reveals exactly the least set S that contains the seed and,
\* for each cell of S with the number 0, its neighbours that were unrevealed and
\* unflagged before the call; it returns hit_mine = False and |S|.
C19_FloodFillIsLeastSet ==
    [][SafeSeedCall
          => (/\ NewlyRevealed = FloodSet({event'.cell})
              /\ opened' = Cardinality(FloodSet({event'.cell}))
              /\ ~hit_mine')]_vars

\* C19's case: reveal_cell on a seed with the number 0 opened three cells or
\* more, went around a flagged cell without a mine, and stopped at a numbered
\* cell, leaving a cell without a mine or flag unrevealed
C19_Witness ==
    /\ event.type = "reveal_cell"
    /\ adjacency_grid[event.cell] = 0
    /\ ~hit_mine
    /\ opened >= 3
    /\ \E q \in Board : ~revealed[q] /\ ~flagged[q] /\ ~mine_grid[q]
    /\ \E q \in Board :
           /\ flagged[q] /\ ~revealed[q] /\ ~mine_grid[q]
           /\ \E p \in NeighborsOf(q) : revealed[p] /\ adjacency_grid[p] = 0
    /\ \E p \in Board : revealed[p] /\ adjacency_grid[p] > 0

\* the results of the loop of reveal_cell when each iteration takes any cell
\* of the work list: work is the set of cells on the list, rev the revealed
\* grid so far, n newly_revealed, all read in the state before the call
RECURSIVE AnyOrderResults(_, _, _)
AnyOrderResults(work, rev, n) ==
    IF work = {} THEN {[hit_mine |-> FALSE, n |-> n, revealed |-> rev]}
    ELSE UNION {
             LET rest == work \ {cur}
                 rev2 == [rev EXCEPT ![cur] = TRUE]
             IN  IF rev[cur] \/ flagged[cur]
                 THEN AnyOrderResults(rest, rev, n)
                 ELSE IF mine_grid[cur]
                 THEN {[hit_mine |-> TRUE, n |-> n + 1, revealed |-> rev2]}
                 ELSE IF adjacency_grid[cur] = 0
                 THEN AnyOrderResults(
                          rest \cup {q \in NeighborsOf(cur) :
                                        ~rev2[q] /\ ~mine_grid[q]},
                          rev2, n + 1)
                 ELSE AnyOrderResults(rest, rev2, n + 1)
             : cur \in work}

\* C20: order independence of reveal. For the board and seed of any
\* reveal_cell call, whatever order the work list is processed in, the loop
\* ends with the revealed grid and the (hit_mine, newly_revealed) that
\* reveal_cell, with its stack, ends with.
C20_OrderIndependent ==
    [][event'.type = "reveal_cell"
          => AnyOrderResults({event'.cell}, revealed, 0)
                 = {[hit_mine |-> hit_mine', n |-> opened',
                     revealed |-> revealed']}]_vars

\* C20's case: a reveal_cell call opened five cells or more from a seed with
\* the number 0, where the work list held several cells at a time
C20_Witness ==
    /\ event.type = "reveal_cell"
    /\ adjacency_grid[event.cell] = 0
    /\ opened >= 5
    /\ Cardinality({p \in Board : revealed[p] /\ adjacency_grid[p] = 0}) >= 3

\* p comes before q in the order the double loop over (dr, dc) visits the
\* neighbours of a cell: by row, then by column
Before(p, q) == p[1] < q[1] \/ (p[1] = q[1] /\ p[2] < q[2])

\* the unrevealed unflagged neighbours of a cell that hold a mine
MinesHiddenAround(cell) == {q \in HiddenAround(cell) : mine_grid[q]}

\* the first of them in the iteration order
FirstMineAround(cell) ==
    CHOOSE m \in MinesHiddenAround(cell) :
        \A q \in MinesHiddenAround(cell) : q = m \/ Before(m, q)

\* the unrevealed unflagged neighbours of a cell that the iteration reaches
\* before the first of them with a mine
HiddenBeforeFirstMine(cell) ==
    {q \in HiddenAround(cell) : Before(q, FirstMineAround(cell))}

\* the call of the step is a chord_reveal that passes its tests (the cell is
\* revealed, its number positive and equal to the number of flagged
\* neighbours) and has a mine among the neighbours it opens
ChordOnMineCall ==
    /\ event'.type = "chord_reveal"
    /\ revealed[event'.cell]
    /\ adjacency_grid[event'.cell] > 0
    /\ FlaggedAround(event'.cell) = adjacency_grid[event'.cell]
    /\ MinesHiddenAround(event'.cell) # {}

\* C21: chord stops at the first mine. A chord_reveal call that passes its
\* tests and meets a mine among the neighbours it opens returns hit_mine = True
\* at the first such neighbour in the iteration order; total_opened is the
\* number of cells revealed by the call, the mine included: the flood fills of
\* the neighbours before the mine, and the mine; reveal_cell is not called on
\* a later neighbour, which stays unrevealed unless one of those flood fills
\* reached it.
C21_ChordStopsAtFirstMine ==
    [][ChordOnMineCall
          => LET before == FloodSet(HiddenBeforeFirstMine(event'.cell))
                 mine == FirstMineAround(event'.cell)
             IN  /\ hit_mine'
                 /\ NewlyRevealed = before \cup {mine}
                 /\ opened' = Cardinality(before \cup {mine})
                 /\ \A q \in HiddenAround(event'.cell) :
                        (Before(mine, q) /\ q \notin before) => ~revealed'[q]]_vars

\* C21's case: a chord_reveal call opened cells, then a mine, and left a later
\* neighbour without a mine or flag unrevealed
C21_Witness ==
    /\ event.type = "chord_reveal"
    /\ hit_mine
    /\ opened >= 2
    /\ \E m \in NeighborsOf(event.cell) :
           /\ mine_grid[m] /\ revealed[m]
           /\ \E q \in NeighborsOf(event.cell) :
                  Before(m, q) /\ ~revealed[q] /\ ~flagged[q] /\ ~mine_grid[q]

\* C22: layout stability. Apart from the resets (keys R and M), the mine
\* layout changes only in the left-click that turns is_first_click from True
\* to False; once is_first_click is False it stays False and no reveal, chord
\* or flag toggle changes the layout until the next reset, so a game
\* regenerates its layout at most once.
C22_LayoutStable ==
    [][event'.type \notin ResetEvents
          => (/\ mine_grid' # mine_grid
                    => (is_first_click /\ ~is_first_click' /\ event'.type = "left")
              /\ ~is_first_click
                    => (~is_first_click' /\ mine_grid' = mine_grid))]_vars

\* C22's case: after the first click of a game and a flag toggle, a chord
\* opened the remaining cells of the layout that the first click left
C22_Witness ==
    /\ ~is_first_click
    /\ event.type = "middle"
    /\ opened > 0
    /\ game_state = "won"
    /\ \E p \in Board : flagged[p] /\ mine_grid[p]

\* C23: adjacency consistency. In every reachable state of the game the
\* adjacency grid is calc_adjacency of the current mine layout: -1 on each
\* mine, the number of touching mines elsewhere.
C23_AdjacencyConsistent ==
    /\ adjacency_grid = CalcAdjacency(mine_grid)
    /\ DOMAIN adjacency_grid = DOMAIN mine_grid
    /\ \A p \in DOMAIN mine_grid : adjacency_grid[p] = ReferenceAdjacency(p)

\* C23's case: the first click of a game regenerated the layout and opened a
\* cell that touches two mines, and the game goes on
C23_Witness ==
    /\ ~is_first_click
    /\ event.type = "left"
    /\ game_state = "running"
    /\ revealed[event.cell]
    /\ adjacency_grid[event.cell] = 2

\* C24: reset. From any state, running, won or lost, key R and a menu change
\* behind key M leave a board of the configured size with every cell
\* unrevealed and unflagged, game_state "running", remaining_safe =
\* ROWS * COLUMNS - NUM_MINES, is_first_click True, a layout with exactly
\* NUM_MINES mines and both timer stamps None; key R keeps the configuration.
C24_Reset ==
    [][event'.type \in ResetEvents
          => (/\ DOMAIN mine_grid' = (0 .. ROWS' - 1) \X (0 .. COLUMNS' - 1)
              /\ DOMAIN revealed' = DOMAIN mine_grid'
              /\ DOMAIN flagged' = DOMAIN mine_grid'
              /\ \A p \in DOMAIN mine_grid' : ~revealed'[p] /\ ~flagged'[p]
              /\ game_state' = "running"
              /\ remaining_safe' = ROWS' * COLUMNS' - NUM_MINES'
              /\ is_first_click'
              /\ Cardinality({p \in DOMAIN mine_grid' : mine_grid'[p]}) = NUM_MINES'
              /\ start_ticks' = None
              /\ end_ticks' = None
              /\ event'.type = "key_r"
                    => <<ROWS', COLUMNS', NUM_MINES'>> = <<ROWS, COLUMNS, NUM_MINES>>)]_vars

\* C24's case: key M has set up a board of four cells with two mines, all
\* unrevealed and unflagged
C24_Witness ==
    /\ event.type = "key_m"
    /\ ROWS * COLUMNS = MaxCells
    /\ NUM_MINES = MaxMines
    /\ game_state = "running"
    /\ is_first_click
    /\ start_ticks = None
    /\ \A p \in Board : ~revealed[p] /\ ~flagged[p]

\* the step is a chord: a middle click, or a left click with the right button
\* held on a revealed numbered cell
ChordStep ==
    \/ event'.type = "middle"
    \/ event'.type = "left" /\ IsChordClick(event'.cell, event'.pressed_right)

\* C25: the loss display. In the state right after a transition to lost, by a
\* reveal or by a chord, every mine of the layout is revealed; the cells
\* without a mine that the step revealed are those the reveal_cell or
\* chord_reveal call itself opened (none for a reveal, the flood fills before
\* the first mine for a chord), so the loss handling reveals no cell without a
\* mine.
C25_LossDisplay ==
    [][(game_state # "lost" /\ game_state' = "lost")
          => (/\ mine_grid' = mine_grid
              /\ \A p \in Board : mine_grid[p] => revealed'[p]
              /\ {p \in NewlyRevealed : ~mine_grid[p]}
                     = IF ChordStep
                       THEN FloodSet(HiddenBeforeFirstMine(event'.cell))
                       ELSE {})]_vars

\* C25's case: a plain left-click on a mine lost a game with two mines; both
\* are revealed and a cell without a mine is still unrevealed
C25_Witness ==
    /\ game_state = "lost"
    /\ event.type = "left"
    /\ ~event.pressed_right
    /\ mine_grid[event.cell]
    /\ NUM_MINES >= 2
    /\ \A p \in Board : mine_grid[p] => revealed[p]
    /\ \E p \in Board : ~mine_grid[p] /\ ~revealed[p]

\* C26: menu clamping. Whatever values run_menu of minesweeper/menu.py is
\* entered with and whatever preset, +/- and Start clicks follow, the tuple
\* Start returns has MIN_ROWS <= rows <= MAX_ROWS (6..16), MIN_COLS <= cols
\* <= MAX_COLS (6..20), 1 <= mines <= rows * cols - 1 and 16 <= tile <= 96.
C26_MenuClamping ==
    menu.state = "start"
        => /\ MIN_ROWS <= menu.rows /\ menu.rows <= MAX_ROWS
           /\ MIN_COLS <= menu.cols /\ menu.cols <= MAX_COLS
           /\ 1 <= menu.mines /\ menu.mines <= menu.rows * menu.cols - 1
           /\ MenuMinTile <= menu.tile /\ menu.tile <= MenuMaxTile

\* C26's case: Start returned the smallest grid filled with mines but one,
\* after clicks that left more mines in the locals than such a grid takes
C26_Witness ==
    /\ menu.state = "start"
    /\ menu.clicks = MaxMenuClicks
    /\ menu.rows = MIN_ROWS
    /\ menu.cols = MIN_COLS
    /\ menu.mines = MIN_ROWS * MIN_COLS - 1
    /\ menu.tile = MenuMinTile

\* the cells a call of the step starts from: the cell of a reveal_cell call,
\* the cells around the cell of a chord_reveal call
CallSeeds ==
    IF event'.type = "reveal_cell" THEN {event'.cell} ELSE NeighborsOf(event'.cell)

\* C27: flags protect cells from reveal and chord. No reveal_cell or
\* chord_reveal call changes the revealed value of a cell that is flagged at
\* the time of the call, be it the seed, a neighbour of the chord cell or a cell
\* the flood fill reaches; and a flagged cell with the number 0 is not expanded
\* through: every cell the call opens is reached from an unflagged seed over
\* unflagged cells with the number 0.
C27_FlagsProtect ==
    [][event'.type \in {"reveal_cell", "chord_reveal"}
          => (/\ \A p \in Board : flagged[p] => revealed'[p] = revealed[p]
              /\ NewlyRevealed
                     \subseteq FloodSet({q \in CallSeeds :
                                            ~revealed[q] /\ ~flagged[q]}))]_vars

\* C27's case: a call opened two cells or more by flood fill and left
\* unrevealed a flagged cell with the number 0 that touches an opened cell with
\* the number 0, and behind it a cell without mine or flag that touches no
\* opened cell with the number 0
C27_Witness ==
    /\ event.type \in {"reveal_cell", "chord_reveal"}
    /\ opened >= 2
    /\ \E p \in Board :
           /\ flagged[p] /\ ~revealed[p] /\ adjacency_grid[p] = 0
           /\ \E z \in Board : Touch(z, p) /\ revealed[z] /\ adjacency_grid[z] = 0
           /\ \E q \in Board :
                  /\ Touch(p, q) /\ ~revealed[q] /\ ~flagged[q] /\ ~mine_grid[q]

\* the result of the call of the step when the neighbours of a cell are the
\* cells of the grid passed that touch it, as in calc_adjacency
OwnGridResult ==
    IF event'.type = "reveal_cell"
    THEN RevealCell(event'.cell, mine_grid, adjacency_grid, revealed, flagged,
                    GridRows(revealed), GridColumns(revealed))
    ELSE ChordReveal(event'.cell, mine_grid, adjacency_grid, revealed, flagged,
                     GridRows(revealed), GridColumns(revealed))

\* the step is a call of reveal_cell or chord_reveal
LogicCall == event'.type \in {"reveal_cell", "chord_reveal"}

\* C28: the same neighbourhood everywhere. For every grid size, reveal_cell
\* and chord_reveal take as neighbours exactly the cells of the grid passed to
\* them that touch the cell, the relation calc_adjacency derives from the
\* grid's own dimensions: a call never indexes outside the grid and opens what
\* the flood fill and the chord over that relation open.
C28_SameNeighbourhood ==
    [][LogicCall
          => (/\ ~crashed'
              /\ revealed' = OwnGridResult.revealed
              /\ hit_mine' = OwnGridResult.hit_mine
              /\ opened' = OwnGridResult.n)]_vars

\* C28 where cfg.ROWS and cfg.COLUMNS are the dimensions of the grid passed
C28_SameNeighbourhoodWhenConfigured ==
    [][LogicCall /\ ROWS = GridRows(revealed) /\ COLUMNS = GridColumns(revealed)
          => (/\ ~crashed'
              /\ revealed' = OwnGridResult.revealed
              /\ hit_mine' = OwnGridResult.hit_mine
              /\ opened' = OwnGridResult.n)]_vars

\* C28's case: on a grid as large as cfg.ROWS x cfg.COLUMNS, a call opened
\* cells by flood fill over the neighbours
C28_Witness ==
    /\ event.type \in {"reveal_cell", "chord_reveal"}
    /\ ROWS = GridRows(revealed)
    /\ COLUMNS = GridColumns(revealed)
    /\ ~crashed
    /\ opened >= 2

\* C29: termination. Every reveal_cell and every chord_reveal call returns:
\* the work list of the flood fill empties (or the call returns on a mine)
\* with at most R*C cells newly revealed, counted over the whole call.
C29_Termination ==
    /\ [](call.total_opened + call.newly_revealed <= Cardinality(Board))
    /\ (call.pc # "idle") ~> (call.pc = "idle")

\* C29's case: a reveal_cell call made by chord_reveal is in its loop with
\* two cells opened and the same cell twice on the work list
C29_Witness ==
    /\ call.pc = "while"
    /\ call.in_chord
    /\ call.newly_revealed >= 2
    /\ \E j, k \in 1 .. Len(call.stack) : j < k /\ call.stack[j] = call.stack[k]

=============================================================================
